---------------------------- MODULE Spec2Model ----------------------------
(***************************************************************************)
(* Voxly: the interactive hit-region pass-through controller.              *)
(*                                                                         *)
(*   click_through/mod.rs      Region Store (HIT_RECTS, SCALE_FACTOR),     *)
(*                             point_in_hit_region, update_region          *)
(*   click_through/windows.rs  style-based realizer: setup, the cursor     *)
(*                             tracker thread, ensure_visible              *)
(*   click_through/linux.rs    region-based realizer: setup,               *)
(*                             rebuild_input_shape                         *)
(*   click_through/mod.rs      point_in_hit_region_css, the callback-based *)
(*                             hit test                                    *)
(*   domain/manager.rs         the dictation session: start_recording,     *)
(*                             stop_and_process                            *)
(*   transcribe.rs             the transcription client: transcribe and    *)
(*                             its retry policy, build_transcription_url   *)
(*                                                                         *)
(* Numbers.  HitRect fields and the scale factor are f64 in the source.    *)
(* The model uses integers for the rectangle fields and a positive         *)
(* rational <<num, den>> for the scale factor; a comparison of a pixel     *)
(* against a scaled field is made after multiplying both sides by den.     *)
(* For the values used here (small integers, scale 1, 3/2, 2) every f64    *)
(* product and sum of the source is exact (a whole number or a half), so   *)
(* the comparisons agree.                                                  *)
(*                                                                         *)
(* Locks.  HIT_RECTS and SCALE_FACTOR are two separate Mutexes.  A guard   *)
(* that lives for one statement only (`*SCALE_FACTOR.lock().unwrap() = v`, *)
(* `let scale = *SCALE_FACTOR.lock().unwrap()`) is one atomic step.  The   *)
(* guard `rects` of point_in_hit_region lives until the function returns,  *)
(* so the HIT_RECTS lock has an owner variable, rectsLock.                 *)
(***************************************************************************)
EXTENDS Integers, Sequences, FiniteSets, TLC

VARIABLES
    HIT_RECTS,      \* mod.rs:19   the stored rectangle list
    SCALE_FACTOR,   \* mod.rs:20   the stored scale factor, <<num, den>>
    rectsLock,      \* owner of the HIT_RECTS mutex: "none" or "reader"
    rectsVer,       \* history: number of the update_region call that wrote HIT_RECTS
    scaleVer,       \* history: number of the update_region call that wrote SCALE_FACTOR
    nCalls,         \* history: update_region calls made so far
    upd,            \* per calling thread: the update_region call in progress
    rd,             \* the point_in_hit_region call in progress
    exStyle,        \* the window's GWL_EXSTYLE word: WS_EX_LAYERED, WS_EX_TRANSPARENT
    opacity,        \* the window's layered alpha (SetLayeredWindowAttributes)
    PASSTHROUGH,    \* windows.rs:7
    WINDOW_HWND,    \* windows.rs:10
    winValid,       \* IsWindow(hwnd)
    su,             \* the thread inside windows::setup
    ex,             \* the thread inside windows::ensure_visible
    po,             \* the cursor tracker thread
    tick,           \* windows.rs:63  the tracker's tick counter (u32, two limbs)
    iters,          \* history: loop iterations of the tracker followed step by step
    bitWriter,      \* history: the thread whose SetWindowLongPtrW last set WS_EX_TRANSPARENT
    at,             \* a thread calling toggle_ex_transparent / ensure_visible in sequence
    log,            \* history: the last two calls that thread completed
    cs,             \* the point_in_hit_region_css call in progress
    inputShape,     \* linux.rs: the input shape in effect on the GDK window
    gdkOk,          \* linux.rs:11-19  whether the GTK and GDK windows resolve
    lx,             \* the thread inside linux::rebuild_input_shape
    state,          \* manager.rs:11  DictationSessionManager.state
    rec,            \* the Recorder port: whether a recording is running
    st,             \* the thread inside start_recording
    sp,             \* the task inside stop_and_process
    tr,             \* the transcribe call in progress
    url             \* the build_transcription_url call in progress

storeVars == <<HIT_RECTS, SCALE_FACTOR, rectsLock, rectsVer, scaleVer, nCalls, upd, rd>>

winVars == <<exStyle, opacity, PASSTHROUGH, WINDOW_HWND, winValid,
             su, ex, po, tick, iters, bitWriter>>

\* the state of the other realizers and of the sequential caller
otherVars == <<at, log, cs, inputShape, gdkOk, lx>>

\* the dictation session and the transcription client
appVars == <<state, rec, st, sp, tr, url>>

vars == <<HIT_RECTS, SCALE_FACTOR, rectsLock, rectsVer, scaleVer, nCalls, upd, rd,
          exStyle, opacity, PASSTHROUGH, WINDOW_HWND, winValid,
          su, ex, po, tick, iters, bitWriter,
          at, log, cs, inputShape, gdkOk, lx,
          state, rec, st, sp, tr, url>>

---------------------------------------------------------------------------
(* Bounds and input sets *)

\* update_region calls made in one behaviour
MaxCalls == 2

\* longest rectangle list drawn for the containment test
MaxRects == 2

\* threads that call update_region
Updaters == {"u1", "u2"}

HitRect(x, y, w, h) == [x |-> x, y |-> y, w |-> w, h |-> h]

RA == HitRect(0, 0, 100, 40)
RB == HitRect(10, 10, 20, 20)
RC == HitRect(30, 10, 20, 30)

\* rectangles the containment test is tried on (RB and RC share an edge)
TestRects == {RA, RB, RC}

\* a rectangle whose fields have fractional products with the scale 1.5
RD == HitRect(5, 5, 25, 25)
AgreeRects == {RB, RD}

\* device pixels around the scaled edges of RB and RD
AgreeCoords == {7, 8, 10, 15, 29, 30, 37, 44, 45, 60}

\* scale factors 1.0, 1.5 and 2.0
One == <<1, 1>>
Scales == {One, <<3, 2>>, <<2, 1>>}

\* all sequences over S of length at most n
RECURSIVE SeqsUpTo(_, _)
SeqsUpTo(S, n) ==
    IF n = 0 THEN {<<>>}
    ELSE LET shorter == SeqsUpTo(S, n - 1)
         IN  shorter \cup {Append(s, e) : s \in {t \in shorter : Len(t) = n - 1}, e \in S}

\* pixel coordinates tried: the edges of the scaled rectangles and their neighbours
Coords == {-1, 0, 1, 19, 20, 21, 39, 40, 45, 50, 59, 60, 61, 99, 100, 150}

\* what the UI layer pushes in the concurrent specifications
UiRectLists == {<<>>, <<RA>>}
UiScales == {One, <<2, 1>>}

\* points the polling reader asks about in the concurrent specifications
UiPoints == {<<50, 20>>, <<150, 20>>}

---------------------------------------------------------------------------
(* mod.rs:25-40  point_in_hit_region *)

\* mutant: the maximum edges are inclusive
RectHit_ClosedMax(rect, scale, px, py) ==
    LET num == scale[1]
        den == scale[2]
    IN  /\ px * den >= rect.x * num
        /\ px * den <= rect.x * num + rect.w * num
        /\ py * den >= rect.y * num
        /\ py * den <= rect.y * num + rect.h * num

\* mutant: the origin is scaled, the width and the height are not
RectHit_UnscaledSize(rect, scale, px, py) ==
    LET num == scale[1]
        den == scale[2]
    IN  /\ px * den >= rect.x * num
        /\ px * den <  rect.x * num + rect.w * den
        /\ py * den >= rect.y * num
        /\ py * den <  rect.y * num + rect.h * den

\* mod.rs:31-35: the test of one rectangle, all four fields scaled
RectHit(rect, scale, px, py) ==
    LET num == scale[1]
        den == scale[2]
    IN  /\ px * den >= rect.x * num
        /\ px * den <  rect.x * num + rect.w * num
        /\ py * den >= rect.y * num
        /\ py * den <  rect.y * num + rect.h * num

\* mod.rs:30-39: the loop, returning at the first rectangle that matches
RECURSIVE HitLoop(_, _, _, _, _)
\* mutant: a loop that reports a hit when there is nothing to test
HitLoop_DefaultTrue(rects, i, scale, px, py) ==
    \/ Len(rects) = 0
    \/ \E j \in i..Len(rects) : RectHit(rects[j], scale, px, py)

HitLoop(rects, i, scale, px, py) ==
    IF i > Len(rects) THEN FALSE
    ELSE IF RectHit(rects[i], scale, px, py) THEN TRUE
    ELSE HitLoop(rects, i + 1, scale, px, py)

point_in_hit_region(rects, scale, x, y) == HitLoop(rects, 1, scale, x, y)

RdIdle == [pc |-> "idle", x |-> 0, y |-> 0, scale |-> One, result |-> FALSE,
           rv |-> 0, sv |-> 0]

\* a caller enters point_in_hit_region(x, y)
PIHR_Call(x, y) ==
    /\ rd.pc \in {"idle", "done"}
    /\ rd' = [RdIdle EXCEPT !.pc = "lock", !.x = x, !.y = y]
    /\ UNCHANGED <<HIT_RECTS, SCALE_FACTOR, rectsLock, rectsVer, scaleVer, nCalls, upd>>
    /\ UNCHANGED winVars
    /\ UNCHANGED otherVars
    /\ UNCHANGED appVars

\* mod.rs:26  let rects = HIT_RECTS.lock().unwrap();
PIHR_Lock ==
    /\ rd.pc = "lock"
    /\ rectsLock = "none"
    /\ rectsLock' = "reader"
    /\ rd' = [rd EXCEPT !.pc = "scale", !.rv = rectsVer]
    /\ UNCHANGED <<HIT_RECTS, SCALE_FACTOR, rectsVer, scaleVer, nCalls, upd>>
    /\ UNCHANGED winVars
    /\ UNCHANGED otherVars
    /\ UNCHANGED appVars

\* mutant: the scale factor is not read, the rectangles are taken as pixels
PIHR_Scale_Unscaled ==
    /\ rd.pc = "scale"
    /\ rd' = [rd EXCEPT !.pc = "loop", !.scale = One, !.sv = scaleVer]
    /\ UNCHANGED <<HIT_RECTS, SCALE_FACTOR, rectsLock, rectsVer, scaleVer, nCalls, upd>>
    /\ UNCHANGED winVars
    /\ UNCHANGED otherVars
    /\ UNCHANGED appVars

\* mod.rs:27  let scale = *SCALE_FACTOR.lock().unwrap();
PIHR_Scale ==
    /\ rd.pc = "scale"
    /\ rd' = [rd EXCEPT !.pc = "loop", !.scale = SCALE_FACTOR, !.sv = scaleVer]
    /\ UNCHANGED <<HIT_RECTS, SCALE_FACTOR, rectsLock, rectsVer, scaleVer, nCalls, upd>>
    /\ UNCHANGED winVars
    /\ UNCHANGED otherVars
    /\ UNCHANGED appVars

\* mod.rs:28-40  the loop over the locked list; the guard is dropped on return
PIHR_Return ==
    /\ rd.pc = "loop"
    /\ rd' = [rd EXCEPT !.pc = "done",
                        !.result = point_in_hit_region(HIT_RECTS, rd.scale, rd.x, rd.y)]
    /\ rectsLock' = "none"
    /\ UNCHANGED <<HIT_RECTS, SCALE_FACTOR, rectsVer, scaleVer, nCalls, upd>>
    /\ UNCHANGED winVars
    /\ UNCHANGED otherVars
    /\ UNCHANGED appVars

---------------------------------------------------------------------------
(* mod.rs:70-76  update_region (the build without the region-based realizer) *)

UpdIdle == [pc |-> "idle", rects |-> <<>>, scale |-> One, id |-> 0]

\* a thread enters update_region(rects, scale_factor, window)
UpdateCall(u, rects, scale) ==
    /\ upd[u].pc \in {"idle", "returned"}
    /\ nCalls < MaxCalls
    /\ nCalls' = nCalls + 1
    /\ upd' = [upd EXCEPT ![u] = [pc |-> "scale", rects |-> rects, scale |-> scale,
                                  id |-> nCalls + 1]]
    /\ UNCHANGED <<HIT_RECTS, SCALE_FACTOR, rectsLock, rectsVer, scaleVer, rd>>
    /\ UNCHANGED winVars
    /\ UNCHANGED otherVars
    /\ UNCHANGED appVars

\* mutant: the scale factor of the call is not stored
UpdateScale_NotStored(u) ==
    /\ upd[u].pc = "scale"
    /\ upd' = [upd EXCEPT ![u].pc = "rects"]
    /\ UNCHANGED <<HIT_RECTS, SCALE_FACTOR, rectsLock, rectsVer, scaleVer, nCalls, rd>>
    /\ UNCHANGED winVars
    /\ UNCHANGED otherVars
    /\ UNCHANGED appVars

\* mod.rs:71  *SCALE_FACTOR.lock().unwrap() = scale_factor;
UpdateScale(u) ==
    /\ upd[u].pc = "scale"
    /\ SCALE_FACTOR' = upd[u].scale
    /\ scaleVer' = upd[u].id
    /\ upd' = [upd EXCEPT ![u].pc = "rects"]
    /\ UNCHANGED <<HIT_RECTS, rectsLock, rectsVer, nCalls, rd>>
    /\ UNCHANGED winVars
    /\ UNCHANGED otherVars
    /\ UNCHANGED appVars

\* mutant: an empty list leaves the stored rectangles in place
StoredRects_KeepWhenEmpty(old, new) == IF new = <<>> THEN old ELSE new

\* what line 72 stores
StoredRects(old, new) == new

\* mod.rs:72  *HIT_RECTS.lock().unwrap() = rects;  and the return
UpdateRects(u) ==
    /\ upd[u].pc = "rects"
    /\ rectsLock = "none"
    /\ HIT_RECTS' = StoredRects(HIT_RECTS, upd[u].rects)
    /\ rectsVer' = upd[u].id
    /\ upd' = [upd EXCEPT ![u].pc = "returned"]
    /\ UNCHANGED <<SCALE_FACTOR, rectsLock, scaleVer, nCalls, rd>>
    /\ UNCHANGED winVars
    /\ UNCHANGED otherVars
    /\ UNCHANGED appVars

update_region(u) ==
    \/ \E rects \in UiRectLists, scale \in UiScales : UpdateCall(u, rects, scale)
    \/ UpdateScale(u)
    \/ UpdateRects(u)

---------------------------------------------------------------------------
(* windows.rs  the style-based realizer *)

\* windows.rs:64  const WATCHDOG_INTERVAL: u32 = 600
WATCHDOG_INTERVAL == 600

\* windows.rs:63  tick: u32.  The counter is kept as two 16-bit limbs,
\* tick = hi * Limb + lo, so that its whole range can be written down.
Limb == 65536

TickZero == [hi |-> 0, lo |-> 0]

\* windows.rs:73  tick.wrapping_add(k), for 0 <= k < Limb
TickAdd(t, k) ==
    LET lo == t.lo + k
    IN  IF lo < Limb THEN [t EXCEPT !.lo = lo]
        ELSE [hi |-> (t.hi + 1) % Limb, lo |-> lo - Limb]

\* windows.rs:74  tick % m, for 0 < m < Limb
TickMod(t, m) == (t.hi * (Limb % m) + t.lo) % m

\* loop iterations of the tracker followed step by step in one behaviour
MaxTicks == 2
\* tracker threads the repeated calls of setup may spawn in one behaviour
MaxSetups == 2
\* longest base URL given to the URL builder, in path tokens
MaxUrlLen == 8

\* the two bits of the extended-style word the realizer reads and writes
Style(l, t) == [layered |-> l, transparent |-> t]
NoStyle == Style(FALSE, FALSE)
\* the style a window can have when setup is reached: WS_EX_TRANSPARENT is
\* only ever given to a window together with WS_EX_LAYERED
WindowStyles == {NoStyle, Style(TRUE, FALSE), Style(TRUE, TRUE)}

\* cursor positions and window origins (screen coordinates) the OS reports
CursorPts == {<<50, 20>>, <<150, 20>>}
WinOrigins == {<<0, 0>>, <<100, 0>>}

\* GetWindowLongPtrW(hwnd, GWL_EXSTYLE): 0 once the window is destroyed
GetExStyle == IF winValid THEN exStyle ELSE NoStyle

\* windows.rs:16-20  the style word toggle_ex_transparent computes
ToggledStyle(ex_style, enable) == [ex_style EXCEPT !.transparent = enable]

\* windows.rs:30-31  the style word ensure_layered_visible computes
LayeredStyle(ex_style) == [ex_style EXCEPT !.layered = TRUE]

ThIdle == [pc |-> "idle", ex_style |-> NoStyle, enable |-> FALSE]
\* last and gap are history: how the last tick ended, and the ticks made on a
\* valid window since the watchdog last fired (or since the thread started).
\* threads is history too: the tracker threads spawned for the window so far.
\* The record follows the thread spawned last.
PoNone == [pc |-> "none", ex_style |-> NoStyle, enable |-> FALSE, last |-> "none",
           gap |-> 0, threads |-> 0]

\* windows.rs:15 and windows.rs:29  let ex_style = GetWindowLongPtrW(hwnd, GWL_EXSTYLE);
\* executed by thread record r, which continues at pc next
ReadExStyle(r, next) == [r EXCEPT !.pc = next, !.ex_style = GetExStyle]

\* mutant: the style word is written back on every call
EnsureCalls_Always(ex_style) == TRUE

\* windows.rs:30  whether ensure_layered_visible calls SetWindowLongPtrW
EnsureCalls(ex_style) == ~ex_style.layered

\* mutant: the new style word is written also when it equals the word read
ToggleCalls_Always(ex_style, enable) == TRUE

\* windows.rs:21  whether toggle_ex_transparent calls SetWindowLongPtrW
ToggleCalls(ex_style, enable) == ToggledStyle(ex_style, enable) # ex_style

\* windows.rs:30-33  ensure_layered_visible after its read: the style word is
\* written back with WS_EX_LAYERED added when the bit read was clear, then the
\* opacity is pinned at 255.  SetWindowLongPtrW replaces the whole word.
EnsureLayeredWrite(r, who) ==
    /\ exStyle' = IF winValid /\ EnsureCalls(r.ex_style)
                  THEN LayeredStyle(r.ex_style) ELSE exStyle
    /\ opacity' = IF winValid /\ exStyle'.layered THEN 255 ELSE opacity
    /\ bitWriter' = IF winValid /\ EnsureCalls(r.ex_style)
                       /\ r.ex_style.transparent # exStyle.transparent
                    THEN who ELSE bitWriter

\* windows.rs:16-23  toggle_ex_transparent after its read: the new word is
\* written only when it differs from the word read
ToggleWrite(r, who) ==
    LET new_style == ToggledStyle(r.ex_style, r.enable)
        written == winValid /\ ToggleCalls(r.ex_style, r.enable)
    IN  /\ exStyle' = IF written THEN new_style ELSE exStyle
        /\ bitWriter' = IF written THEN who ELSE bitWriter

(* windows.rs:45-62  setup, up to the spawn of the tracker thread *)

\* windows.rs:46-50  the native handle is resolved, or setup returns
SetupCall ==
    /\ su.pc = "idle"
    /\ su' = [su EXCEPT !.pc = IF winValid THEN "elv_get" ELSE "done"]
    /\ UNCHANGED <<exStyle, opacity, PASSTHROUGH, WINDOW_HWND, winValid,
                   ex, po, tick, iters, bitWriter>>
    /\ UNCHANGED storeVars
    /\ UNCHANGED otherVars
    /\ UNCHANGED appVars

\* windows.rs:53  ensure_layered_visible(hwnd): the read
SetupLayeredGet ==
    /\ su.pc = "elv_get"
    /\ su' = ReadExStyle(su, "elv_set")
    /\ UNCHANGED <<exStyle, opacity, PASSTHROUGH, WINDOW_HWND, winValid,
                   ex, po, tick, iters, bitWriter>>
    /\ UNCHANGED storeVars
    /\ UNCHANGED otherVars
    /\ UNCHANGED appVars

\* windows.rs:53  ensure_layered_visible(hwnd): the write
SetupLayeredSet ==
    /\ su.pc = "elv_set"
    /\ EnsureLayeredWrite(su, "setup")
    /\ su' = [ThIdle EXCEPT !.pc = "tog_get", !.enable = TRUE]
    /\ UNCHANGED <<PASSTHROUGH, WINDOW_HWND, winValid, ex, po, tick, iters>>
    /\ UNCHANGED storeVars
    /\ UNCHANGED otherVars
    /\ UNCHANGED appVars

\* windows.rs:54  toggle_ex_transparent(hwnd, true): the read
SetupToggleGet ==
    /\ su.pc = "tog_get"
    /\ su' = ReadExStyle(su, "tog_set")
    /\ UNCHANGED <<exStyle, opacity, PASSTHROUGH, WINDOW_HWND, winValid,
                   ex, po, tick, iters, bitWriter>>
    /\ UNCHANGED storeVars
    /\ UNCHANGED otherVars
    /\ UNCHANGED appVars

\* windows.rs:54  toggle_ex_transparent(hwnd, true): the write
SetupToggleSet ==
    /\ su.pc = "tog_set"
    /\ ToggleWrite(su, "setup")
    /\ su' = [ThIdle EXCEPT !.pc = "store"]
    /\ UNCHANGED <<opacity, PASSTHROUGH, WINDOW_HWND, winValid,
                   ex, po, tick, iters>>
    /\ UNCHANGED storeVars
    /\ UNCHANGED otherVars
    /\ UNCHANGED appVars

\* windows.rs:56-63  the two stores and the spawn: the tracker starts with tick 0
SetupSpawn ==
    /\ su.pc = "store"
    /\ PASSTHROUGH' = TRUE
    /\ WINDOW_HWND' = 1
    /\ po' = [PoNone EXCEPT !.pc = "sleep", !.threads = po.threads + 1]
    /\ tick' = TickZero
    /\ su' = [ThIdle EXCEPT !.pc = "done"]
    /\ UNCHANGED <<exStyle, opacity, winValid, ex, iters, bitWriter>>
    /\ UNCHANGED storeVars
    /\ UNCHANGED otherVars
    /\ UNCHANGED appVars

\* mod.rs:56-58  setup has returned and the facade's setup is called again on
\* the same window: windows::setup has no record of an earlier call
SetupAgain ==
    /\ su.pc = "done"
    /\ po.threads < MaxSetups
    /\ su' = ThIdle
    /\ UNCHANGED <<exStyle, opacity, PASSTHROUGH, WINDOW_HWND, winValid,
                   ex, po, tick, iters, bitWriter>>
    /\ UNCHANGED storeVars
    /\ UNCHANGED otherVars
    /\ UNCHANGED appVars

setup ==
    \/ SetupCall
    \/ SetupLayeredGet
    \/ SetupLayeredSet
    \/ SetupToggleGet
    \/ SetupToggleSet
    \/ SetupSpawn

(* windows.rs:116-124  ensure_visible, called from outside the realizer *)

\* windows.rs:117  the native handle is resolved, or nothing is done
ExtCall ==
    /\ ex.pc = "idle"
    /\ winValid
    /\ ex' = [ex EXCEPT !.pc = "elv_get"]
    /\ UNCHANGED <<exStyle, opacity, PASSTHROUGH, WINDOW_HWND, winValid,
                   su, po, tick, iters, bitWriter>>
    /\ UNCHANGED storeVars
    /\ UNCHANGED otherVars
    /\ UNCHANGED appVars

\* windows.rs:120  ensure_layered_visible(hwnd): the read
ExtLayeredGet ==
    /\ ex.pc = "elv_get"
    /\ ex' = ReadExStyle(ex, "elv_set")
    /\ UNCHANGED <<exStyle, opacity, PASSTHROUGH, WINDOW_HWND, winValid,
                   su, po, tick, iters, bitWriter>>
    /\ UNCHANGED storeVars
    /\ UNCHANGED otherVars
    /\ UNCHANGED appVars

\* windows.rs:120-121  ensure_layered_visible(hwnd): the write; InvalidateRect
\* changes nothing the realizer reads
ExtLayeredSet ==
    /\ ex.pc = "elv_set"
    /\ EnsureLayeredWrite(ex, "ext")
    /\ ex' = ThIdle
    /\ UNCHANGED <<PASSTHROUGH, WINDOW_HWND, winValid, su, po, tick, iters>>
    /\ UNCHANGED storeVars
    /\ UNCHANGED otherVars
    /\ UNCHANGED appVars

ensure_visible ==
    \/ ExtCall
    \/ ExtLayeredGet
    \/ ExtLayeredSet

(* windows.rs:14-34 and 116-124  toggle_ex_transparent and ensure_visible called
   one after the other by a single thread *)

AtIdle == [pc |-> "idle", op |-> "none", ex_style |-> NoStyle, enable |-> FALSE,
           before |-> NoStyle]

\* the thread enters toggle_ex_transparent(hwnd, enable) (op "toggle") or
\* ensure_visible(window) (op "visible"); ensure_visible does nothing when the
\* handle does not resolve (windows.rs:117)
AttrCall(op, enable) ==
    /\ at.pc = "idle"
    /\ op = "visible" => winValid
    /\ at' = [AtIdle EXCEPT !.pc = "get", !.op = op, !.enable = enable,
                            !.before = GetExStyle]
    /\ UNCHANGED <<exStyle, opacity, PASSTHROUGH, WINDOW_HWND, winValid,
                   su, ex, po, tick, iters, bitWriter>>
    /\ UNCHANGED storeVars
    /\ UNCHANGED <<log, cs, inputShape, gdkOk, lx>>
    /\ UNCHANGED appVars

\* windows.rs:15 and 29  the read of the style word
AttrGet ==
    /\ at.pc = "get"
    /\ at' = ReadExStyle(at, "set")
    /\ UNCHANGED <<exStyle, opacity, PASSTHROUGH, WINDOW_HWND, winValid,
                   su, ex, po, tick, iters, bitWriter>>
    /\ UNCHANGED storeVars
    /\ UNCHANGED <<log, cs, inputShape, gdkOk, lx>>
    /\ UNCHANGED appVars

\* the SetWindowLongPtrW calls the call in progress makes after its read
SetCalls(r) ==
    IF r.op = "toggle"
    THEN (IF ToggleCalls(r.ex_style, r.enable) THEN 1 ELSE 0)
    ELSE (IF EnsureCalls(r.ex_style) THEN 1 ELSE 0)

\* the last two completed calls
LastTwo(s) == IF Len(s) > 2 THEN Tail(s) ELSE s

\* windows.rs:16-23 and 30-33  the rest of the call, and its return
AttrSet ==
    /\ at.pc = "set"
    /\ IF at.op = "toggle"
       THEN ToggleWrite(at, "seq") /\ UNCHANGED opacity
       ELSE EnsureLayeredWrite(at, "seq")
    /\ log' = LastTwo(Append(log, [op |-> at.op, enable |-> at.enable,
                                   before |-> at.before,
                                   set_calls |-> SetCalls(at),
                                   style |-> exStyle', alpha |-> opacity',
                                   valid |-> winValid]))
    /\ at' = AtIdle
    /\ UNCHANGED <<PASSTHROUGH, WINDOW_HWND, winValid, su, ex, po, tick, iters>>
    /\ UNCHANGED storeVars
    /\ UNCHANGED <<cs, inputShape, gdkOk, lx>>
    /\ UNCHANGED appVars

attributes ==
    \/ \E enable \in BOOLEAN : AttrCall("toggle", enable)
    \/ AttrCall("visible", FALSE)
    \/ AttrGet
    \/ AttrSet

(* windows.rs:61-112  the cursor tracker thread *)

\* windows.rs:67-76  after the sleep: the loop ends when the window is gone;
\* otherwise the tick advances and every WATCHDOG_INTERVAL-th tick runs
\* ensure_layered_visible
PollWake ==
    /\ po.pc = "sleep"
    /\ IF ~winValid
       THEN /\ po' = [po EXCEPT !.pc = "exited"]
            /\ UNCHANGED <<tick, iters>>
       ELSE /\ iters < MaxTicks
            /\ tick' = TickAdd(tick, 1)
            /\ iters' = iters + 1
            /\ po' = IF TickMod(tick', WATCHDOG_INTERVAL) = 0
                     THEN [po EXCEPT !.pc = "elv_get", !.enable = FALSE,
                                     !.last = "running", !.gap = 0]
                     ELSE [po EXCEPT !.pc = "sample", !.enable = FALSE,
                                     !.last = "running", !.gap = po.gap + 1]
    /\ UNCHANGED <<exStyle, opacity, PASSTHROUGH, WINDOW_HWND, winValid,
                   su, ex, bitWriter>>
    /\ UNCHANGED storeVars
    /\ UNCHANGED otherVars
    /\ UNCHANGED appVars

\* windows.rs:73-74  the number of increments of tick, starting from t, up to
\* and including the next one after which tick % WATCHDOG_INTERVAL == 0.  The
\* counter wraps from 2^32 - 1 to 0, and 0 is a multiple of WATCHDOG_INTERVAL.
TicksToWatchdog(t) ==
    LET toMultiple == WATCHDOG_INTERVAL - TickMod(t, WATCHDOG_INTERVAL)
        toWrap == Limb - t.lo
    IN  IF t.hi = Limb - 1 /\ toWrap < toMultiple THEN toWrap ELSE toMultiple

\* windows.rs:66-81, repeated: a run of consecutive iterations made while the
\* window is valid and hidden, none of them a watchdog tick.  Each takes the
\* `continue` of line 80 and changes nothing but tick; the run ends one tick
\* before the next watchdog tick.
PollHiddenRun ==
    /\ po.pc = "sleep"
    /\ iters < MaxTicks
    /\ winValid
    /\ TicksToWatchdog(tick) > 1
    /\ tick' = TickAdd(tick, TicksToWatchdog(tick) - 1)
    /\ po' = [po EXCEPT !.last = "skipped",
                        !.gap = po.gap + TicksToWatchdog(tick) - 1]
    /\ UNCHANGED <<exStyle, opacity, PASSTHROUGH, WINDOW_HWND, winValid,
                   su, ex, iters, bitWriter>>
    /\ UNCHANGED storeVars
    /\ UNCHANGED otherVars
    /\ UNCHANGED appVars

\* windows.rs:75  the watchdog's ensure_layered_visible(hwnd): the read
PollLayeredGet ==
    /\ po.pc = "elv_get"
    /\ po' = ReadExStyle(po, "elv_set")
    /\ UNCHANGED <<exStyle, opacity, PASSTHROUGH, WINDOW_HWND, winValid,
                   su, ex, tick, iters, bitWriter>>
    /\ UNCHANGED storeVars
    /\ UNCHANGED otherVars
    /\ UNCHANGED appVars

\* windows.rs:75  the watchdog's ensure_layered_visible(hwnd): the write
PollLayeredSet ==
    /\ po.pc = "elv_set"
    /\ EnsureLayeredWrite(po, "poll")
    /\ po' = [po EXCEPT !.pc = "sample", !.ex_style = NoStyle]
    /\ UNCHANGED <<PASSTHROUGH, WINDOW_HWND, winValid, su, ex, tick, iters>>
    /\ UNCHANGED storeVars
    /\ UNCHANGED otherVars
    /\ UNCHANGED appVars

\* mutant: a failed query ends the loop
PollContinue_Exits ==
    /\ po' = [po EXCEPT !.pc = "exited", !.enable = FALSE, !.last = "skipped"]
    /\ UNCHANGED rd

\* the tick is abandoned: back to the sleep at the top of the loop
PollContinue ==
    /\ po' = [po EXCEPT !.pc = "sleep", !.enable = FALSE, !.last = "skipped"]
    /\ UNCHANGED rd

\* mutant: a failed query puts the realizer back to pass-through
PollSample_FailureResets ==
    /\ po.pc = "sample"
    /\ \/ PollContinue /\ PASSTHROUGH' = TRUE
       \/ /\ winValid
          /\ \E point \in CursorPts, origin \in WinOrigins :
                LET x_local == point[1] - origin[1]
                    y_local == point[2] - origin[2]
                IN  rd' = [RdIdle EXCEPT !.pc = "lock", !.x = x_local, !.y = y_local]
          /\ po' = [po EXCEPT !.pc = "hit"]
          /\ UNCHANGED PASSTHROUGH
    /\ UNCHANGED <<exStyle, opacity, WINDOW_HWND, winValid,
                   su, ex, tick, iters, bitWriter>>
    /\ UNCHANGED <<HIT_RECTS, SCALE_FACTOR, rectsLock, rectsVer, scaleVer, nCalls, upd>>
    /\ UNCHANGED otherVars
    /\ UNCHANGED appVars

\* windows.rs:78-99  IsWindowVisible, GetWindowRect and GetCursorPos.  What the
\* three queries answer is the windowing layer's choice: a hidden window
\* (always so once destroyed) or a failed query skips the tick, otherwise the
\* window-local point is handed to point_in_hit_region
PollSample ==
    /\ po.pc = "sample"
    /\ \/ PollContinue
       \/ /\ winValid
          /\ \E point \in CursorPts, origin \in WinOrigins :
                LET x_local == point[1] - origin[1]
                    y_local == point[2] - origin[2]
                IN  rd' = [RdIdle EXCEPT !.pc = "lock", !.x = x_local, !.y = y_local]
          /\ po' = [po EXCEPT !.pc = "hit"]
    /\ UNCHANGED <<exStyle, opacity, PASSTHROUGH, WINDOW_HWND, winValid,
                   su, ex, tick, iters, bitWriter>>
    /\ UNCHANGED <<HIT_RECTS, SCALE_FACTOR, rectsLock, rectsVer, scaleVer, nCalls, upd>>
    /\ UNCHANGED otherVars
    /\ UNCHANGED appVars

\* mutant: the style is toggled on every tick, also when nothing changes
PollDecide_AlwaysToggle ==
    /\ po.pc = "hit" /\ rd.pc = "done"
    /\ po' = [po EXCEPT !.pc = "tog_get", !.enable = ~rd.result]
    /\ rd' = RdIdle
    /\ UNCHANGED <<exStyle, opacity, PASSTHROUGH, WINDOW_HWND, winValid,
                   su, ex, tick, iters, bitWriter>>
    /\ UNCHANGED <<HIT_RECTS, SCALE_FACTOR, rectsLock, rectsVer, scaleVer, nCalls, upd>>
    /\ UNCHANGED otherVars
    /\ UNCHANGED appVars

\* windows.rs:99-110  in_hit_region is back; PASSTHROUGH is loaded and compared
\* with the wanted state; a toggle is started only when they differ.  The
\* record keeps want_passthrough in its field enable.
PollDecide ==
    /\ po.pc = "hit" /\ rd.pc = "done"
    /\ LET in_hit_region == rd.result
           passthrough == PASSTHROUGH
           want_passthrough == ~in_hit_region
       IN  po' = IF want_passthrough /\ ~passthrough
                 THEN [po EXCEPT !.pc = "tog_get", !.enable = TRUE]
                 ELSE IF ~want_passthrough /\ passthrough
                 THEN [po EXCEPT !.pc = "tog_get", !.enable = FALSE]
                 ELSE [po EXCEPT !.pc = "sleep", !.enable = want_passthrough,
                                 !.last = "kept"]
    /\ rd' = RdIdle
    /\ UNCHANGED <<exStyle, opacity, PASSTHROUGH, WINDOW_HWND, winValid,
                   su, ex, tick, iters, bitWriter>>
    /\ UNCHANGED <<HIT_RECTS, SCALE_FACTOR, rectsLock, rectsVer, scaleVer, nCalls, upd>>
    /\ UNCHANGED otherVars
    /\ UNCHANGED appVars

\* windows.rs:105 and 108  toggle_ex_transparent(hwnd, ..): the read
PollToggleGet ==
    /\ po.pc = "tog_get"
    /\ po' = ReadExStyle(po, "tog_set")
    /\ UNCHANGED <<exStyle, opacity, PASSTHROUGH, WINDOW_HWND, winValid,
                   su, ex, tick, iters, bitWriter>>
    /\ UNCHANGED storeVars
    /\ UNCHANGED otherVars
    /\ UNCHANGED appVars

\* windows.rs:105 and 108  toggle_ex_transparent(hwnd, ..): the write
PollToggleSet ==
    /\ po.pc = "tog_set"
    /\ ToggleWrite(po, "poll")
    /\ po' = [po EXCEPT !.pc = "store", !.ex_style = NoStyle]
    /\ UNCHANGED <<opacity, PASSTHROUGH, WINDOW_HWND, winValid,
                   su, ex, tick, iters>>
    /\ UNCHANGED storeVars
    /\ UNCHANGED otherVars
    /\ UNCHANGED appVars

\* windows.rs:106 and 109  PASSTHROUGH.store(..)
PollStore ==
    /\ po.pc = "store"
    /\ PASSTHROUGH' = po.enable
    /\ po' = [po EXCEPT !.pc = "sleep", !.last = "toggled"]
    /\ UNCHANGED <<exStyle, opacity, WINDOW_HWND, winValid,
                   su, ex, tick, iters, bitWriter>>
    /\ UNCHANGED storeVars
    /\ UNCHANGED otherVars
    /\ UNCHANGED appVars

\* the call of super::point_in_hit_region on line 99
PollHitTest ==
    /\ po.pc = "hit"
    /\ (PIHR_Lock \/ PIHR_Scale \/ PIHR_Return)

tracker ==
    \/ PollWake
    \/ PollHiddenRun
    \/ PollLayeredGet
    \/ PollLayeredSet
    \/ PollSample
    \/ PollHitTest
    \/ PollDecide
    \/ PollToggleGet
    \/ PollToggleSet
    \/ PollStore

(* the windowing layer *)

\* the window is destroyed
WindowDestroyed ==
    /\ winValid
    /\ winValid' = FALSE
    /\ UNCHANGED <<exStyle, opacity, PASSTHROUGH, WINDOW_HWND, su, ex, po, tick, iters,
                   bitWriter>>
    /\ UNCHANGED storeVars
    /\ UNCHANGED otherVars
    /\ UNCHANGED appVars

\* windows.rs:7 and 10: the statics; the window as the windowing layer made it
InitWindow(styles) ==
    /\ exStyle \in styles
    /\ opacity = 0
    /\ PASSTHROUGH = TRUE
    /\ WINDOW_HWND = 0
    /\ winValid = TRUE
    /\ su = ThIdle
    /\ ex = ThIdle
    /\ po = PoNone
    /\ tick = TickZero
    /\ iters = 0
    /\ bitWriter = "none"

---------------------------------------------------------------------------
(* mod.rs:44-53  point_in_hit_region_css, the callback-based hit test *)

\* logical-pixel coordinates tried: the edges of RA, RB and RC and their neighbours
CssCoords == {-1, 0, 9, 10, 11, 29, 30, 31, 39, 40, 49, 50, 99, 100}

\* mutant: the rectangle is scaled by the stored scale factor first
RectHitCss_Scaled(rect, x, y) == RectHit(rect, SCALE_FACTOR, x, y)

\* mod.rs:48: the test of one rectangle, in logical pixels
RectHitCss(rect, x, y) ==
    /\ x >= rect.x
    /\ x <  rect.x + rect.w
    /\ y >= rect.y
    /\ y <  rect.y + rect.h

\* mod.rs:47-52: the loop, returning at the first rectangle that matches
RECURSIVE CssLoop(_, _, _, _)
CssLoop(rects, i, x, y) ==
    IF i > Len(rects) THEN FALSE
    ELSE IF RectHitCss(rects[i], x, y) THEN TRUE
    ELSE CssLoop(rects, i + 1, x, y)

point_in_hit_region_css(rects, x, y) == CssLoop(rects, 1, x, y)

CsIdle == [pc |-> "idle", x |-> 0, y |-> 0, result |-> FALSE]

\* the windowing system asks about the point (x, y)
CssCall(x, y) ==
    /\ cs.pc \in {"idle", "done"}
    /\ cs' = [CsIdle EXCEPT !.pc = "lock", !.x = x, !.y = y]
    /\ UNCHANGED storeVars
    /\ UNCHANGED winVars
    /\ UNCHANGED <<at, log, inputShape, gdkOk, lx>>
    /\ UNCHANGED appVars

\* mod.rs:46  let rects = HIT_RECTS.lock().unwrap();
CssLock ==
    /\ cs.pc = "lock"
    /\ rectsLock = "none"
    /\ rectsLock' = "css"
    /\ cs' = [cs EXCEPT !.pc = "loop"]
    /\ UNCHANGED <<HIT_RECTS, SCALE_FACTOR, rectsVer, scaleVer, nCalls, upd, rd>>
    /\ UNCHANGED winVars
    /\ UNCHANGED <<at, log, inputShape, gdkOk, lx>>
    /\ UNCHANGED appVars

\* mod.rs:47-53  the loop over the locked list; the guard is dropped on return
CssReturn ==
    /\ cs.pc = "loop"
    /\ cs' = [cs EXCEPT !.pc = "done",
                        !.result = point_in_hit_region_css(HIT_RECTS, cs.x, cs.y)]
    /\ rectsLock' = "none"
    /\ UNCHANGED <<HIT_RECTS, SCALE_FACTOR, rectsVer, scaleVer, nCalls, upd, rd>>
    /\ UNCHANGED winVars
    /\ UNCHANGED <<at, log, inputShape, gdkOk, lx>>
    /\ UNCHANGED appVars

---------------------------------------------------------------------------
(* linux.rs  the region-based realizer *)

\* what the UI layer pushes to the region-based realizer
ShapeRectLists == {<<>>, <<RB>>, <<RB, RC>>}

\* the window before any input shape was submitted: it takes input everywhere
NoShape == [kind |-> "none", rects |-> <<>>, dx |-> 0, dy |-> 0]

\* `v as i32` for v = a / b, b > 0: the fraction is dropped
TruncDiv(a, b) == IF a >= 0 THEN a \div b ELSE -((-a) \div b)

\* linux.rs:33-38  cairo::RectangleInt::new((rect.x * scale) as i32, ...)
RectangleInt(rect, scale) ==
    [x |-> TruncDiv(rect.x * scale[1], scale[2]),
     y |-> TruncDiv(rect.y * scale[1], scale[2]),
     w |-> TruncDiv(rect.w * scale[1], scale[2]),
     h |-> TruncDiv(rect.h * scale[1], scale[2])]

\* mutant: nothing is submitted for an empty list, the old shape stays
SubmittedShape_KeepWhenEmpty(old, rects, scale) ==
    IF rects = <<>> THEN old
    ELSE [kind |-> "region",
          rects |-> [i \in 1..Len(rects) |-> RectangleInt(rects[i], scale)],
          dx |-> 0, dy |-> 0]

\* linux.rs:24-42  the shape input_shape_combine_region(&region, 0, 0) puts in
\* effect: an empty region for an empty list, else the union of the converted
\* rectangles
SubmittedShape(old, rects, scale) ==
    IF rects = <<>> THEN [kind |-> "region", rects |-> <<>>, dx |-> 0, dy |-> 0]
    ELSE [kind |-> "region",
          rects |-> [i \in 1..Len(rects) |-> RectangleInt(rects[i], scale)],
          dx |-> 0, dy |-> 0]

\* caller: "setup" or the thread in update_region; last (history): how the
\* latest rebuild_input_shape ended
LxIdle == [pc |-> "idle", caller |-> "none", scale |-> One, last |-> "none",
           setup |-> FALSE]

\* linux.rs:3-6  setup(window) calls rebuild_input_shape
LinuxSetup ==
    /\ lx.pc = "idle"
    /\ ~lx.setup
    /\ \A u \in Updaters : upd[u].pc \in {"idle", "returned"}
    /\ lx' = [lx EXCEPT !.pc = "resolve", !.caller = "setup", !.setup = TRUE]
    /\ UNCHANGED storeVars
    /\ UNCHANGED winVars
    /\ UNCHANGED <<at, log, cs, inputShape, gdkOk>>
    /\ UNCHANGED appVars

\* mod.rs:72 and 75  *HIT_RECTS.lock().unwrap() = rects; then
\* linux::rebuild_input_shape(window) is entered
UpdateRectsLinux(u) ==
    /\ upd[u].pc = "rects"
    /\ rectsLock = "none"
    /\ lx.pc = "idle"
    /\ HIT_RECTS' = StoredRects(HIT_RECTS, upd[u].rects)
    /\ rectsVer' = upd[u].id
    /\ upd' = [upd EXCEPT ![u].pc = "rebuild"]
    /\ lx' = [lx EXCEPT !.pc = "resolve", !.caller = u]
    /\ UNCHANGED <<SCALE_FACTOR, rectsLock, scaleVer, nCalls, rd>>
    /\ UNCHANGED winVars
    /\ UNCHANGED <<at, log, cs, inputShape, gdkOk>>
    /\ UNCHANGED appVars

\* the caller of rebuild_input_shape gets control back
RebuildReturn(outcome) ==
    /\ lx' = [lx EXCEPT !.pc = "idle", !.scale = One, !.last = outcome]
    /\ upd' = IF lx.caller \in Updaters
              THEN [upd EXCEPT ![lx.caller].pc = "returned"] ELSE upd

\* mutant: a window that does not resolve has its input shape cleared
RebuildResolve_ClearsShape ==
    /\ lx.pc = "resolve"
    /\ IF gdkOk
       THEN lx' = [lx EXCEPT !.pc = "lock"] /\ UNCHANGED <<upd, inputShape>>
       ELSE /\ RebuildReturn("unresolved")
            /\ inputShape' = SubmittedShape(inputShape, <<>>, One)
    /\ UNCHANGED <<HIT_RECTS, SCALE_FACTOR, rectsLock, rectsVer, scaleVer, nCalls, rd>>
    /\ UNCHANGED winVars
    /\ UNCHANGED <<at, log, cs, gdkOk>>
    /\ UNCHANGED appVars

\* linux.rs:11-19  the GTK window and its GDK window are resolved, or the
\* function returns
RebuildResolve ==
    /\ lx.pc = "resolve"
    /\ IF gdkOk
       THEN lx' = [lx EXCEPT !.pc = "lock"] /\ UNCHANGED <<upd, inputShape>>
       ELSE RebuildReturn("unresolved") /\ UNCHANGED inputShape
    /\ UNCHANGED <<HIT_RECTS, SCALE_FACTOR, rectsLock, rectsVer, scaleVer, nCalls, rd>>
    /\ UNCHANGED winVars
    /\ UNCHANGED <<at, log, cs, gdkOk>>
    /\ UNCHANGED appVars

\* linux.rs:21  let rects = super::HIT_RECTS.lock().unwrap();
RebuildLock ==
    /\ lx.pc = "lock"
    /\ rectsLock = "none"
    /\ rectsLock' = "rebuild"
    /\ lx' = [lx EXCEPT !.pc = "scale"]
    /\ UNCHANGED <<HIT_RECTS, SCALE_FACTOR, rectsVer, scaleVer, nCalls, upd, rd>>
    /\ UNCHANGED winVars
    /\ UNCHANGED <<at, log, cs, inputShape, gdkOk>>
    /\ UNCHANGED appVars

\* linux.rs:22  let scale = *super::SCALE_FACTOR.lock().unwrap();
RebuildScale ==
    /\ lx.pc = "scale"
    /\ lx' = [lx EXCEPT !.pc = "submit", !.scale = SCALE_FACTOR]
    /\ UNCHANGED storeVars
    /\ UNCHANGED winVars
    /\ UNCHANGED <<at, log, cs, inputShape, gdkOk>>
    /\ UNCHANGED appVars

\* linux.rs:24-43  the region is built and submitted; the guard is dropped
RebuildSubmit ==
    /\ lx.pc = "submit"
    /\ inputShape' = SubmittedShape(inputShape, HIT_RECTS, lx.scale)
    /\ rectsLock' = "none"
    /\ RebuildReturn("submitted")
    /\ UNCHANGED <<HIT_RECTS, SCALE_FACTOR, rectsVer, scaleVer, nCalls, rd>>
    /\ UNCHANGED winVars
    /\ UNCHANGED <<at, log, cs, gdkOk>>
    /\ UNCHANGED appVars

rebuild_input_shape ==
    \/ RebuildResolve
    \/ RebuildLock
    \/ RebuildScale
    \/ RebuildSubmit

\* the thread that ran setup enters update_region(rects, scale_factor, window)
UpdateCallLinux(u, rects, scale) ==
    /\ lx.pc = "idle"
    /\ UpdateCall(u, rects, scale)

\* mod.rs:70-76  update_region in the build with the region-based realizer
update_region_linux(u) ==
    \/ \E rects \in ShapeRectLists, scale \in Scales : UpdateCallLinux(u, rects, scale)
    \/ UpdateScale(u)
    \/ UpdateRectsLinux(u)

\* the GTK window is realized or unrealized by the toolkit
GdkWindowChanges ==
    /\ gdkOk' = ~gdkOk
    /\ UNCHANGED storeVars
    /\ UNCHANGED winVars
    /\ UNCHANGED <<at, log, cs, inputShape, lx>>
    /\ UNCHANGED appVars

---------------------------------------------------------------------------
(* domain/manager.rs: the dictation session.                               *)
(* start_recording is a synchronous command and stop_and_process an async  *)
(* one (commands.rs:34, 42), so the two run on different threads.  The     *)
(* state lock is held for one block or one set_state call at a time; each  *)
(* such block is one step, and so is each call of a port or of on_update.  *)

\* types.rs:9-16
DictationState == {"Idle", "Recording", "Transcribing", "Pasting", "Done", "Error"}

None == "None"

\* types.rs:27-45  DictationUpdate::new(state).message(..).text(..)
DictationUpdate(s, message, text) == [state |-> s, message |-> message, text |-> text]

Ok(v) == [ok |-> TRUE, val |-> v]

Err(e) == [ok |-> FALSE, val |-> e]

\* a call that has not returned, a response that has not arrived
Pending == [pending |-> TRUE]

\* what the ports can answer (manager.rs:72, 97, 105, 112)
RecorderStartResults == {Ok("unit"), Err("no input device")}

RecorderStopResults == {Ok("wav"), Err("no audio captured")}

TranscribeResults == {Ok("hello"), Err("API error")}

PasteResults == {Ok("unit"), Err("paste failed")}

StIdle == [pc |-> "idle", result |-> Pending, e |-> None, emitted |-> <<>>]

\* run: the call passed its Recording guard; text: the transcription, once it
\* succeeded; pasted: the paste succeeded; err: the error of the async block
SpIdle == [pc |-> "idle", result |-> Pending, run |-> FALSE, text |-> None,
           pasted |-> FALSE, err |-> None, emitted |-> <<>>]

clickVars == <<storeVars, winVars, otherVars>>

\* manager.rs:58  start_recording is entered
StCall ==
    /\ st.pc \in {"idle", "returned"}
    /\ st' = [StIdle EXCEPT !.pc = "guard"]
    /\ UNCHANGED <<state, rec, sp, tr, url>>
    /\ UNCHANGED clickVars

\* a guard that lets a finished session through as well
StGuard_AllowsDone ==
    /\ st.pc = "guard"
    /\ IF state \notin {"Idle", "Done"}
       THEN st' = [st EXCEPT !.pc = "returned", !.result = Err("Busy")]
            /\ UNCHANGED state
       ELSE state' = "Recording" /\ st' = [st EXCEPT !.pc = "emit"]
    /\ UNCHANGED <<rec, sp, tr, url>>
    /\ UNCHANGED clickVars

\* manager.rs:62-68  under the state lock: Busy unless Idle, else Recording
StGuard ==
    /\ st.pc = "guard"
    /\ IF state # "Idle"
       THEN st' = [st EXCEPT !.pc = "returned", !.result = Err("Busy")]
            /\ UNCHANGED state
       ELSE state' = "Recording" /\ st' = [st EXCEPT !.pc = "emit"]
    /\ UNCHANGED <<rec, sp, tr, url>>
    /\ UNCHANGED clickVars

\* manager.rs:70  on_update(Recording)
StEmitRecording ==
    /\ st.pc = "emit"
    /\ st' = [st EXCEPT !.pc = "start",
                        !.emitted = Append(@, DictationUpdate("Recording", None, None))]
    /\ UNCHANGED <<state, rec, sp, tr, url>>
    /\ UNCHANGED clickVars

\* manager.rs:72-74  recorder.start(); Ok returns, Err goes on to line 75
StRecorderStart ==
    /\ st.pc = "start"
    /\ \E r \in RecorderStartResults :
         IF r.ok
         THEN st' = [st EXCEPT !.pc = "returned", !.result = Ok("unit")]
              /\ rec' = "on"
         ELSE st' = [st EXCEPT !.pc = "reset", !.e = r.val]
              /\ UNCHANGED rec
    /\ UNCHANGED <<state, sp, tr, url>>
    /\ UNCHANGED clickVars

\* manager.rs:75  let _ = self.set_state(Idle)
StReset ==
    /\ st.pc = "reset"
    /\ state' = "Idle"
    /\ st' = [st EXCEPT !.pc = "emit_err"]
    /\ UNCHANGED <<rec, sp, tr, url>>
    /\ UNCHANGED clickVars

\* manager.rs:76-78  on_update(Error.message(e)); Err(e)
StEmitError ==
    /\ st.pc = "emit_err"
    /\ st' = [st EXCEPT !.pc = "returned", !.result = Err(st.e),
                        !.emitted = Append(@, DictationUpdate("Error", st.e, None))]
    /\ UNCHANGED <<state, rec, sp, tr, url>>
    /\ UNCHANGED clickVars

start_recording ==
    \/ StCall
    \/ StGuard
    \/ StEmitRecording
    \/ StRecorderStart
    \/ StReset
    \/ StEmitError

\* manager.rs:82  stop_and_process is entered
SpCall ==
    /\ sp.pc \in {"idle", "returned"}
    /\ sp' = [SpIdle EXCEPT !.pc = "guard"]
    /\ UNCHANGED <<state, rec, st, tr, url>>
    /\ UNCHANGED clickVars

\* manager.rs:86-92  under the state lock: "Not recording" unless Recording,
\* else Transcribing
SpGuard ==
    /\ sp.pc = "guard"
    /\ IF state # "Recording"
       THEN sp' = [sp EXCEPT !.pc = "returned", !.result = Err("Not recording")]
            /\ UNCHANGED state
       ELSE state' = "Transcribing" /\ sp' = [sp EXCEPT !.pc = "emit_tr", !.run = TRUE]
    /\ UNCHANGED <<rec, st, tr, url>>
    /\ UNCHANGED clickVars

\* manager.rs:94  on_update(Transcribing)
SpEmitTranscribing ==
    /\ sp.pc = "emit_tr"
    /\ sp' = [sp EXCEPT !.pc = "stop",
                        !.emitted = Append(@, DictationUpdate("Transcribing", None, None))]
    /\ UNCHANGED <<state, rec, st, tr, url>>
    /\ UNCHANGED clickVars

\* manager.rs:97-103  recorder.stop()?, then the settings are cloned
SpRecorderStop ==
    /\ sp.pc = "stop"
    /\ \E r \in RecorderStopResults :
         sp' = IF r.ok THEN [sp EXCEPT !.pc = "transcribe"]
                       ELSE [sp EXCEPT !.pc = "to_idle", !.err = r.val]
    /\ rec' = "off"
    /\ UNCHANGED <<state, st, tr, url>>
    /\ UNCHANGED clickVars

\* manager.rs:105  transcriber.transcribe(..).await?
SpTranscribe ==
    /\ sp.pc = "transcribe"
    /\ \E r \in TranscribeResults :
         sp' = IF r.ok THEN [sp EXCEPT !.pc = "set_pasting", !.text = r.val]
                       ELSE [sp EXCEPT !.pc = "to_idle", !.err = r.val]
    /\ UNCHANGED <<state, rec, st, tr, url>>
    /\ UNCHANGED clickVars

\* manager.rs:108  self.set_state(Pasting)?
SpSetPasting ==
    /\ sp.pc = "set_pasting"
    /\ state' = "Pasting"
    /\ sp' = [sp EXCEPT !.pc = "emit_pasting"]
    /\ UNCHANGED <<rec, st, tr, url>>
    /\ UNCHANGED clickVars

\* manager.rs:110  on_update(Pasting)
SpEmitPasting ==
    /\ sp.pc = "emit_pasting"
    /\ sp' = [sp EXCEPT !.pc = "paste",
                        !.emitted = Append(@, DictationUpdate("Pasting", None, None))]
    /\ UNCHANGED <<state, rec, st, tr, url>>
    /\ UNCHANGED clickVars

\* manager.rs:112  self.paster.paste(&text)?
SpPaste ==
    /\ sp.pc = "paste"
    /\ \E r \in PasteResults :
         sp' = IF r.ok THEN [sp EXCEPT !.pc = "set_done", !.pasted = TRUE]
                       ELSE [sp EXCEPT !.pc = "to_idle", !.err = r.val]
    /\ UNCHANGED <<state, rec, st, tr, url>>
    /\ UNCHANGED clickVars

\* manager.rs:115  self.set_state(Done)?
SpSetDone ==
    /\ sp.pc = "set_done"
    /\ state' = "Done"
    /\ sp' = [sp EXCEPT !.pc = "emit_done"]
    /\ UNCHANGED <<rec, st, tr, url>>
    /\ UNCHANGED clickVars

\* manager.rs:117-120  on_update(Done.text(text)); Ok(text)
SpEmitDone ==
    /\ sp.pc = "emit_done"
    /\ sp' = [sp EXCEPT !.pc = "to_idle",
                        !.emitted = Append(@, DictationUpdate("Done", None, sp.text))]
    /\ UNCHANGED <<state, rec, st, tr, url>>
    /\ UNCHANGED clickVars

\* a run that goes back to Idle only when it succeeded
SpSetIdle_OnlyOnSuccess ==
    /\ sp.pc = "to_idle"
    /\ state' = IF sp.err = None THEN "Idle" ELSE state
    /\ sp' = [sp EXCEPT !.pc = "finish"]
    /\ UNCHANGED <<rec, st, tr, url>>
    /\ UNCHANGED clickVars

\* manager.rs:123-124  let _ = self.set_state(Idle), whatever the block returned
SpSetIdle ==
    /\ sp.pc = "to_idle"
    /\ state' = "Idle"
    /\ sp' = [sp EXCEPT !.pc = "finish"]
    /\ UNCHANGED <<rec, st, tr, url>>
    /\ UNCHANGED clickVars

\* a failing run that reports nothing
SpFinish_NoErrorUpdate ==
    /\ sp.pc = "finish"
    /\ sp' = IF sp.err = None
             THEN [sp EXCEPT !.pc = "returned", !.result = Ok(sp.text)]
             ELSE [sp EXCEPT !.pc = "returned", !.result = Err(sp.err)]
    /\ UNCHANGED <<state, rec, st, tr, url>>
    /\ UNCHANGED clickVars

\* manager.rs:126-132  Ok(text) is returned; Err(err) is reported, then returned
SpFinish ==
    /\ sp.pc = "finish"
    /\ sp' = IF sp.err = None
             THEN [sp EXCEPT !.pc = "returned", !.result = Ok(sp.text)]
             ELSE [sp EXCEPT !.pc = "returned", !.result = Err(sp.err),
                             !.emitted = Append(@, DictationUpdate("Error", sp.err, None))]
    /\ UNCHANGED <<state, rec, st, tr, url>>
    /\ UNCHANGED clickVars

stop_and_process ==
    \/ SpCall
    \/ SpGuard
    \/ SpEmitTranscribing
    \/ SpRecorderStop
    \/ SpTranscribe
    \/ SpSetPasting
    \/ SpEmitPasting
    \/ SpPaste
    \/ SpSetDone
    \/ SpEmitDone
    \/ SpSetIdle
    \/ SpFinish

---------------------------------------------------------------------------
(* transcribe.rs: the transcription client.                                *)
(* A string is a sequence of one-character strings, except that a URL is a *)
(* sequence of path tokens ("/" and whole segments) and an error body a    *)
(* sequence of phrases; `contains` on a body is membership of the phrase.  *)

StartsWith(s, prefix) ==
    /\ Len(s) >= Len(prefix)
    /\ SubSeq(s, 1, Len(prefix)) = prefix

EndsWith(s, suffix) ==
    /\ Len(s) >= Len(suffix)
    /\ SubSeq(s, Len(s) - Len(suffix) + 1, Len(s)) = suffix

\* str::trim().is_empty()
IsBlank(s) == \A i \in 1..Len(s) : s[i] = " "

\* to_ascii_lowercase, on the letters that occur in the inputs
LowerChar(c) ==
    CASE c = "W" -> "w"
      [] c = "P" -> "p"
      [] c = "PROMPT" -> "prompt"
      [] OTHER -> c

to_ascii_lowercase(s) == [i \in 1..Len(s) |-> LowerChar(s[i])]

Contains(body, phrase) == \E i \in 1..Len(body) : body[i] = phrase

\* transcribe.rs:98-105
supports_prompt(provider, model) ==
    CASE provider = "groq" -> TRUE
      [] provider = "openai" ->
            StartsWith(to_ascii_lowercase(model), <<"w", "h", "i", "s", "p", "e", "r">>)
      [] provider = "custom" -> TRUE
      [] OTHER -> FALSE

\* transcribe.rs:226-228  status: None, the error is not an HTTP status
NoStatus == 0

\* transcribe.rs:22, 34  Option<&str>
Some(v) == [some |-> TRUE, v |-> v]

NoPrompt == [some |-> FALSE, v |-> <<>>]

\* transcribe.rs:108-110, 125-127  matches!(status, 400 | 404 | 415 | 422)
RetryStatuses == {400, 404, 415, 422}

\* transcribe.rs:107-122
should_retry_without_verbose(error) ==
    /\ error.status # NoStatus
    /\ error.status \in RetryStatuses
    /\ LET body == to_ascii_lowercase(error.body)
       IN  \/ Contains(body, "response_format")
           \/ Contains(body, "verbose")
           \/ Contains(body, "unknown parameter")
           \/ Contains(body, "not allowed")
           \/ Contains(body, "unexpected field")

\* transcribe.rs:124-138
should_retry_without_prompt(error) ==
    /\ error.status # NoStatus
    /\ error.status \in RetryStatuses
    /\ LET body == to_ascii_lowercase(error.body)
       IN  \/ Contains(body, "prompt")
           \/ Contains(body, "unknown parameter")
           \/ Contains(body, "not allowed")
           \/ Contains(body, "unexpected field")

\* transcribe.rs:212-231  ApiError: no status for a transport error
ApiError(status, body) == [ok |-> FALSE, status |-> status, body |-> body]

ApiKeys == {<<>>, <<" ">>, <<"s", "k">>}

Prompts == {NoPrompt, Some(<<" ">>), Some(<<"V", "o", "x", "l", "y">>)}

Providers == {"groq", "openai", "custom", "mistral"}

Models == {<<"W", "h", "i", "s", "p", "e", "r", "-", "1">>, <<"g", "p", "t", "-", "4", "o">>}

Bodies == {<<>>, <<"invalid", "PROMPT">>, <<"response_format", "invalid">>,
           <<"verbose">>, <<"unknown parameter">>, <<"not allowed">>,
           <<"unexpected field">>, <<"rate limit">>}

FirstResponses ==
    {Ok("hello")} \cup {ApiError(s, b) : s \in {NoStatus, 400, 404, 415, 422, 500}, b \in Bodies}

RetryResponses ==
    {Ok("hello"), ApiError(NoStatus, <<>>), ApiError(400, <<"invalid", "PROMPT">>),
     ApiError(422, <<"verbose">>)}

TrIdle == [pc |-> "idle", api_key |-> <<>>, provider |-> None, model |-> <<>>,
           prompt |-> NoPrompt, prompt_to_send |-> NoPrompt, requests |-> <<>>,
           first |-> Pending, second |-> Pending, next |-> Pending, result |-> Pending]

\* transcribe.rs:140-209  one HTTP request: the prompt part and response_format
Request(prompt, verbose) == [prompt |-> prompt, verbose |-> verbose]

\* transcribe.rs:20  transcribe is entered
TrCall(api_key, provider, model, prompt) ==
    /\ tr.pc \in {"idle", "returned"}
    /\ tr' = [TrIdle EXCEPT !.pc = "check", !.api_key = api_key, !.provider = provider,
                            !.model = model, !.prompt = prompt]
    /\ UNCHANGED <<state, rec, st, sp, url>>
    /\ UNCHANGED clickVars

\* transcribe.rs:28-34  the key check and the prompt filter
TrCheck ==
    /\ tr.pc = "check"
    /\ IF IsBlank(tr.api_key)
       THEN tr' = [tr EXCEPT !.pc = "returned", !.result = Err("Missing API key")]
       ELSE tr' = [tr EXCEPT !.pc = "first",
                     !.prompt_to_send =
                         IF /\ tr.prompt.some
                            /\ supports_prompt(tr.provider, tr.model)
                            /\ ~IsBlank(tr.prompt.v)
                         THEN tr.prompt ELSE NoPrompt]
    /\ UNCHANGED <<state, rec, st, sp, url>>
    /\ UNCHANGED clickVars

\* transcribe.rs:47-69, 76-86  what follows a failed first attempt
RetryOf(prompt_to_send, error) ==
    IF prompt_to_send.some
    THEN IF should_retry_without_prompt(error) THEN Request(NoPrompt, TRUE)
         ELSE IF should_retry_without_verbose(error) THEN Request(prompt_to_send, FALSE)
         ELSE Pending
    ELSE IF should_retry_without_verbose(error) THEN Request(NoPrompt, FALSE)
         ELSE Pending

\* a retry without the prompt that gives up the verbose format as well
TrFirst_DropsBoth ==
    /\ tr.pc = "first"
    /\ \E r \in FirstResponses :
         LET sent == Append(tr.requests, Request(tr.prompt_to_send, TRUE))
             next == IF r.ok THEN Pending ELSE RetryOf(tr.prompt_to_send, r)
         IN  tr' = IF r.ok
                   THEN [tr EXCEPT !.pc = "returned", !.requests = sent, !.first = r,
                                   !.result = r]
                   ELSE IF next # Pending
                   THEN [tr EXCEPT !.pc = "retry", !.requests = sent, !.first = r,
                                   !.next = Request(next.prompt, FALSE)]
                   ELSE [tr EXCEPT !.pc = "returned", !.requests = sent, !.first = r,
                                   !.result = Err(r)]
    /\ UNCHANGED <<state, rec, st, sp, url>>
    /\ UNCHANGED clickVars

\* transcribe.rs:36-69, 74-86  the first attempt and the choice of a retry
TrFirst ==
    /\ tr.pc = "first"
    /\ \E r \in FirstResponses :
         LET sent == Append(tr.requests, Request(tr.prompt_to_send, TRUE))
             next == IF r.ok THEN Pending ELSE RetryOf(tr.prompt_to_send, r)
         IN  tr' = IF r.ok
                   THEN [tr EXCEPT !.pc = "returned", !.requests = sent, !.first = r,
                                   !.result = r]
                   ELSE IF next # Pending
                   THEN [tr EXCEPT !.pc = "retry", !.requests = sent, !.first = r,
                                   !.next = next]
                   ELSE [tr EXCEPT !.pc = "returned", !.requests = sent, !.first = r,
                                   !.result = Err(r)]
    /\ UNCHANGED <<state, rec, st, sp, url>>
    /\ UNCHANGED clickVars

\* transcribe.rs:49-57, 59-67, 77-83  the retry; its answer is returned
TrRetry ==
    /\ tr.pc = "retry"
    /\ \E r \in RetryResponses :
         tr' = [tr EXCEPT !.pc = "returned", !.requests = Append(@, tr.next),
                          !.second = r, !.result = IF r.ok THEN r ELSE Err(r)]
    /\ UNCHANGED <<state, rec, st, sp, url>>
    /\ UNCHANGED clickVars

transcribe ==
    \/ \E k \in ApiKeys, pr \in Providers, m \in Models, p \in Prompts : TrCall(k, pr, m, p)
    \/ TrCheck
    \/ TrFirst
    \/ TrRetry

\* transcribe.rs:90  str::trim_end_matches('/')
RECURSIVE trim_end_matches(_)
trim_end_matches(s) ==
    IF s # <<>> /\ s[Len(s)] = "/"
    THEN trim_end_matches(SubSeq(s, 1, Len(s) - 1))
    ELSE s

\* transcribe.rs:91  "/audio/transcriptions"
Endpoint == <<"/", "audio", "/", "transcriptions">>

\* a builder that appends the endpoint whatever the base URL ends in
build_transcription_url_AlwaysAppends(base_url) ==
    trim_end_matches(base_url) \o Endpoint

\* transcribe.rs:89-96
build_transcription_url(base_url) ==
    LET trimmed == trim_end_matches(base_url)
    IN  IF EndsWith(trimmed, Endpoint) THEN trimmed ELSE trimmed \o Endpoint

UrlTokens == {"/", "audio", "transcriptions", "v1"}

UrlIdle == [pc |-> "idle", base_url |-> <<>>, out |-> <<>>, again |-> <<>>]

\* transcribe.rs:32  the builder is applied to a base URL
BuildUrl ==
    /\ url.pc = "idle"
    /\ \E base_url \in SeqsUpTo(UrlTokens, MaxUrlLen) :
         url' = [UrlIdle EXCEPT !.pc = "built", !.base_url = base_url,
                                !.out = build_transcription_url(base_url)]
    /\ UNCHANGED <<state, rec, st, sp, tr>>
    /\ UNCHANGED clickVars

\* the builder is applied to its own output
BuildAgain ==
    /\ url.pc = "built"
    /\ url' = [url EXCEPT !.pc = "again", !.again = build_transcription_url(url.out)]
    /\ UNCHANGED <<state, rec, st, sp, tr>>
    /\ UNCHANGED clickVars

\* manager.rs:29: the session starts Idle; no call of the client is in progress
InitApp ==
    /\ state = "Idle"
    /\ rec = "off"
    /\ st = StIdle
    /\ sp = SpIdle
    /\ tr = TrIdle
    /\ url = UrlIdle

---------------------------------------------------------------------------
\* the other realizers are not set up, the sequential caller has not started
InitOther ==
    /\ at = AtIdle
    /\ log = <<>>
    /\ cs = CsIdle
    /\ inputShape = NoShape
    /\ gdkOk = TRUE
    /\ lx = LxIdle
    /\ InitApp

---------------------------------------------------------------------------
(* Specifications *)

\* mod.rs:19-20: the store starts empty with scale 1.0
InitRegion ==
    /\ HIT_RECTS = <<>>
    /\ SCALE_FACTOR = One
    /\ rectsLock = "none"
    /\ rectsVer = 0
    /\ scaleVer = 0
    /\ nCalls = 0
    /\ upd = [u \in Updaters |-> UpdIdle]
    /\ rd = RdIdle

InitStore == InitRegion /\ InitWindow({NoStyle}) /\ InitOther

Reader ==
    \/ \E p \in UiPoints : PIHR_Call(p[1], p[2])
    \/ PIHR_Lock
    \/ PIHR_Scale
    \/ PIHR_Return

\* one thread pushes regions (the UI thread), the polling reader runs beside it
NextSeq == update_region("u1") \/ Reader

SpecSeq == InitStore /\ [][NextSeq]_vars

\* two threads call update_region concurrently, the reader runs beside them
NextStore == update_region("u1") \/ update_region("u2") \/ Reader

SpecStore == InitStore /\ [][NextStore]_vars

\* the containment test alone, on every stored list and scale within the bounds
InitContains ==
    /\ HIT_RECTS \in SeqsUpTo(TestRects, MaxRects)
    /\ SCALE_FACTOR \in Scales
    /\ rectsLock = "none"
    /\ rectsVer = 0
    /\ scaleVer = 0
    /\ nCalls = 0
    /\ upd = [u \in Updaters |-> UpdIdle]
    /\ rd = RdIdle
    /\ InitWindow({NoStyle})
    /\ InitOther

NextContains ==
    \/ \E x \in Coords, y \in Coords : PIHR_Call(x, y)
    \/ PIHR_Lock
    \/ PIHR_Scale
    \/ PIHR_Return

SpecContains == InitContains /\ [][NextContains]_vars

\* the style-based realizer: setup, the tracker thread, ensure_visible called
\* from another thread, the UI thread pushing regions, and the windowing layer
InitWin == InitRegion /\ InitWindow(WindowStyles) /\ InitOther

NextWin ==
    \/ setup
    \/ tracker
    \/ ensure_visible
    \/ update_region("u1")
    \/ WindowDestroyed

SpecWin == InitWin /\ [][NextWin]_vars

\* toggle_ex_transparent and ensure_visible called in sequence by one thread,
\* on every style the window can start with, while the window may be destroyed
NextAttr == attributes \/ WindowDestroyed

SpecAttr == InitWin /\ [][NextAttr]_vars

\* the callback-based hit test alone, on every stored list and scale within
\* the bounds
NextCss ==
    \/ \E x \in CssCoords, y \in CssCoords : CssCall(x, y)
    \/ CssLock
    \/ CssReturn

SpecCss == InitContains /\ [][NextCss]_vars

\* the region-based realizer: setup and the UI thread pushing regions, on a
\* window that does not always resolve
NextLinux ==
    \/ LinuxSetup
    \/ update_region_linux("u1")
    \/ rebuild_input_shape
    \/ GdkWindowChanges

SpecLinux == InitStore /\ [][NextLinux]_vars

\* tick values the watchdog is followed from: the start of the thread, and the
\* tick 4294966200 = 65535 * 65536 + 64440, the last multiple of
\* WATCHDOG_INTERVAL but one below 2^32
WatchdogStarts == {TickZero, [hi |-> 65535, lo |-> 64440]}

\* the tracker thread asleep between two ticks, some iterations after setup
\* spawned it on a live window (windows.rs:53-63)
InitTracker ==
    /\ InitRegion
    /\ InitOther
    /\ exStyle = Style(TRUE, TRUE)
    /\ opacity = 255
    /\ PASSTHROUGH = TRUE
    /\ WINDOW_HWND = 1
    /\ winValid = TRUE
    /\ su = [ThIdle EXCEPT !.pc = "done"]
    /\ ex = ThIdle
    /\ tick \in WatchdogStarts
    /\ po = [PoNone EXCEPT !.pc = "sleep", !.threads = 1,
                           !.gap = TickMod(tick, WATCHDOG_INTERVAL)]
    /\ iters = 0
    /\ bitWriter = "setup"

\* the tracker thread after setup has returned, with the UI thread pushing
\* regions, ensure_visible called from another thread, and the windowing layer
NextTracker ==
    \/ tracker
    \/ update_region("u1")
    \/ ensure_visible
    \/ WindowDestroyed

SpecTracker == InitTracker /\ [][NextTracker]_vars

\* the facade: setup, called any number of times, with update_region and
\* ensure_visible, the tracker threads and the destruction of the window
NextFacade ==
    \/ setup
    \/ SetupAgain
    \/ tracker
    \/ ensure_visible
    \/ update_region("u1")
    \/ WindowDestroyed

SpecFacade == InitStore /\ [][NextFacade]_vars

\* the start of the process: the window is set up and polled; caller u1
\* pushes empty rectangle lists only, caller u2 non-empty ones only, so that
\* u2 not having called yet is "no non-empty list has been pushed"
update_region_empty(u) ==
    \/ \E scale \in UiScales : UpdateCall(u, <<>>, scale)
    \/ UpdateScale(u)
    \/ UpdateRects(u)

update_region_nonempty(u) ==
    \/ \E rects \in UiRectLists \ {<<>>}, scale \in UiScales : UpdateCall(u, rects, scale)
    \/ UpdateScale(u)
    \/ UpdateRects(u)

NextStart ==
    \/ setup
    \/ tracker
    \/ update_region_empty("u1")
    \/ update_region_nonempty("u2")

SpecStart == InitStore /\ [][NextStart]_vars

\* the two realizers on one store: the store holds any list over AgreeRects
\* with any scale; the region-based realizer builds its shape from it and the
\* hit test of the style-based realizer is asked about device pixels
InitAgree ==
    /\ HIT_RECTS \in SeqsUpTo(AgreeRects, MaxRects)
    /\ SCALE_FACTOR \in Scales
    /\ rectsLock = "none"
    /\ rectsVer = 0
    /\ scaleVer = 0
    /\ nCalls = 0
    /\ upd = [u \in Updaters |-> UpdIdle]
    /\ rd = RdIdle
    /\ InitWindow({NoStyle})
    /\ InitOther

NextAgree ==
    \/ LinuxSetup
    \/ rebuild_input_shape
    \/ \E x \in AgreeCoords, y \in AgreeCoords : PIHR_Call(x, y)
    \/ PIHR_Lock
    \/ PIHR_Scale
    \/ PIHR_Return

SpecAgree == InitAgree /\ [][NextAgree]_vars

\* the dictation session: one thread calls start_recording, one task runs
\* stop_and_process, each again and again
NextSession == start_recording \/ stop_and_process

SpecSession == InitStore /\ [][NextSession]_vars

\* the transcription client, called with every key, provider, model and prompt
NextTranscribe == transcribe

SpecTranscribe == InitStore /\ [][NextTranscribe]_vars

\* the URL builder, applied to every base URL of at most MaxUrlLen tokens and
\* then to its own output
NextUrl == BuildUrl \/ BuildAgain

SpecUrl == InitStore /\ [][NextUrl]_vars

---------------------------------------------------------------------------
(* Claims about the Region Store and the containment test *)

Reverse(s) == [i \in 1..Len(s) |-> s[Len(s) + 1 - i]]

\* half-open membership of pixel p in [lo, lo+len) scaled by scale
HalfOpen(lo, len, p, scale) ==
    /\ lo * scale[1] <= p * scale[2]
    /\ p * scale[2] < (lo + len) * scale[1]

InScaledRect(r, scale, px, py) ==
    HalfOpen(r.x, r.w, px, scale) /\ HalfOpen(r.y, r.h, py, scale)

NoUpdateInFlight == \A u \in Updaters : upd[u].pc \in {"idle", "returned"}

\* C1: every completed read of point_in_hit_region pairs a rectangle list and
\* a scale factor written by the same update_region call (or both initial).
\* The claim as stated; the code violates it (two locks, taken one at a time).
C1_ReaderSeesOneUpdate ==
    rd.pc \in {"loop", "done"} => rd.rv = rd.sv

\* C4: the containment test returns true iff the point lies in at least one
\* stored rectangle under half-open membership; a point on a minimum corner
\* is inside, a point on the maximum edge of a lone rectangle is outside, and
\* the order of the rectangles does not change the answer.
C4_ContainmentIsHalfOpenUnion ==
    rd.pc = "done" =>
        /\ rd.result = (\E i \in 1..Len(HIT_RECTS) :
                            InScaledRect(HIT_RECTS[i], rd.scale, rd.x, rd.y))
        /\ rd.result = point_in_hit_region(Reverse(HIT_RECTS), rd.scale, rd.x, rd.y)
        /\ \A i \in 1..Len(HIT_RECTS) :
              LET r == HIT_RECTS[i] IN
              /\ r.x * rd.scale[1] = rd.x * rd.scale[2]
              /\ r.y * rd.scale[1] = rd.y * rd.scale[2]
              => rd.result
        /\ Len(HIT_RECTS) = 1 =>
              LET r == HIT_RECTS[1] IN
              \/ (r.x + r.w) * rd.scale[1] = rd.x * rd.scale[2]
              \/ (r.y + r.h) * rd.scale[1] = rd.y * rd.scale[2]
              => ~rd.result

\* the point (45,20) at scale 1.5 lies on the maximum edge of RB and on the
\* minimum edge of RC: outside the first rectangle, inside the second
C4_Witness ==
    /\ rd.pc = "done"
    /\ HIT_RECTS = <<RB, RC>>
    /\ rd.scale = <<3, 2>>
    /\ rd.x = 45 /\ rd.y = 20
    /\ rd.result

\* C5: with the rectangle {x:10,y:10,w:20,h:20} and scale 2 the physical
\* points inside are exactly those of [20,60) x [20,60): (21,21) is inside,
\* (19,19) and (61,61) are outside.
C5_ScaleTwoExample ==
    (rd.pc = "done" /\ HIT_RECTS = <<RB>> /\ rd.scale = <<2, 1>>) =>
        /\ rd.result = (20 <= rd.x /\ rd.x < 60 /\ 20 <= rd.y /\ rd.y < 60)
        /\ (rd.x = 21 /\ rd.y = 21) => rd.result
        /\ (rd.x = 19 /\ rd.y = 19) => ~rd.result
        /\ (rd.x = 61 /\ rd.y = 61) => ~rd.result

C5_Witness ==
    /\ rd.pc = "done" /\ HIT_RECTS = <<RB>> /\ rd.scale = <<2, 1>>
    /\ rd.x = 21 /\ rd.y = 21 /\ rd.result

\* C6: once update_region with an empty list has returned, the store is empty
\* and the containment test is false for every point, whatever was stored by
\* the updates before it.
C6_EmptyUpdateClearsRegion ==
    (upd["u1"].pc = "returned" /\ upd["u1"].rects = <<>>) =>
        /\ HIT_RECTS = <<>>
        /\ \A x \in Coords, y \in Coords :
              ~point_in_hit_region(HIT_RECTS, SCALE_FACTOR, x, y)
        /\ (rd.pc = "done" /\ rd.rv = upd["u1"].id) => ~rd.result

\* an empty update has returned after an earlier update whose rectangles a
\* read had found the point in
C6_Witness ==
    /\ upd["u1"].pc = "returned" /\ upd["u1"].rects = <<>>
    /\ rd.pc = "done" /\ rd.result /\ rd.rv > 0 /\ rd.rv < upd["u1"].id

\* C7: when update_region(rects, scale) has returned, the store reads back
\* exactly (rects, scale) on the calling thread.
C7_ReadAfterWrite ==
    upd["u1"].pc = "returned" =>
        /\ HIT_RECTS = upd["u1"].rects
        /\ SCALE_FACTOR = upd["u1"].scale

\* a second update, changing both the list and the scale, has returned
C7_Witness ==
    /\ upd["u1"].pc = "returned" /\ upd["u1"].id = 2
    /\ HIT_RECTS = <<RA>> /\ SCALE_FACTOR = <<2, 1>>

\* C8: once no update_region call is in flight, the rectangle list and the
\* scale factor in the store come from the same call.
\* The claim as stated; the code violates it with two concurrent callers.
C8_UpdatesTotallyOrdered ==
    NoUpdateInFlight => rectsVer = scaleVer

---------------------------------------------------------------------------
(* Claims about the style-based realizer *)

\* C2: while the tracker thread runs on a live window and is not between its
\* own style write and its store of PASSTHROUGH, PASSTHROUGH equals the
\* window's WS_EX_TRANSPARENT bit.
\* The claim as stated; the code violates it (ensure_layered_visible writes
\* back a whole style word read earlier).
C2_MirrorEqualsStyleBit ==
    (po.pc \notin {"none", "store", "exited"} /\ winValid) =>
        PASSTHROUGH = exStyle.transparent

\* C3: a step of the thread inside ensure_visible never changes the
\* WS_EX_TRANSPARENT bit that the tracker thread's toggle_ex_transparent set.
\* The claim as stated; the code violates it.
C3_TrackerUpdateNotLost ==
    [][(ex' # ex /\ bitWriter = "poll") =>
            exStyle'.transparent = exStyle.transparent]_vars

\* C9: a tick that runs to completion on a live window ends with PASSTHROUGH
\* and the WS_EX_TRANSPARENT bit both equal to want_passthrough (set when the
\* cursor is outside every rectangle, cleared when it is inside one).
\* The claim as stated; the code violates it for the style bit.
C9_TickEndsInWantedState ==
    [][(po.pc \in {"hit", "store"} /\ po'.pc = "sleep" /\ winValid') =>
            /\ PASSTHROUGH' = po'.enable
            /\ exStyle'.transparent = po'.enable]_vars

---------------------------------------------------------------------------
(* Claims about the two attribute functions called in sequence *)

\* the last two completed calls were op, op on a window that is still there
TwiceInARow(op) ==
    /\ Len(log) = 2
    /\ log[1].op = op /\ log[2].op = op
    /\ log[2].valid

\* C11: two calls in a row of toggle_ex_transparent with the same target value
\* make one SetWindowLongPtrW call in total when the first call changed the
\* WS_EX_TRANSPARENT bit, and none when the bit already had the target value.
C11_ToggleTwiceOneCall ==
    (TwiceInARow("toggle") /\ log[1].enable = log[2].enable) =>
        /\ log[2].set_calls = 0
        /\ log[1].set_calls + log[2].set_calls =
              (IF log[1].before.transparent # log[1].enable THEN 1 ELSE 0)
        /\ log[1].style.transparent = log[1].enable
        /\ log[2].style = log[1].style

\* the first of two toggles to the same target changed the bit
C11_Witness ==
    /\ TwiceInARow("toggle") /\ log[1].enable = log[2].enable
    /\ log[1].before.transparent # log[1].enable
    /\ log[1].set_calls = 1

\* C14: two calls in a row of ensure_visible leave the layered bit set and the
\* opacity at 255 exactly as the first call left them, and a call made when
\* the layered bit is already set writes no style word.
C14_EnsureVisibleIdempotent ==
    /\ TwiceInARow("visible") =>
          /\ log[1].style.layered /\ log[1].alpha = 255
          /\ log[2].style = log[1].style /\ log[2].alpha = log[1].alpha
          /\ log[2].set_calls = 0
    /\ \A i \in 1..Len(log) :
          (log[i].op = "visible" /\ log[i].valid /\ log[i].before.layered) =>
              /\ log[i].set_calls = 0
              /\ log[i].style = log[i].before

\* the first of two calls had to set the layered bit, on a window whose
\* ignore-input bit was set
C14_Witness ==
    /\ TwiceInARow("visible")
    /\ log[1].set_calls = 1
    /\ log[2].style = Style(TRUE, TRUE)

---------------------------------------------------------------------------
(* Claims about the tracker loop *)

\* C12: once the window handle is invalid the tracker thread, at its next
\* wake-up, exits in one step that touches nothing else; it exits in no other
\* way, and an exited thread never acts again.
C12_ExitsOnlyOnInvalidHandle ==
    [][/\ (po.pc = "sleep" /\ ~winValid /\ po' # po) =>
              /\ po' = [po EXCEPT !.pc = "exited"]
              /\ UNCHANGED <<exStyle, opacity, PASSTHROUGH, tick, rd, bitWriter>>
       /\ (po'.pc = "exited" /\ po.pc # "exited") => (po.pc = "sleep" /\ ~winValid)
       /\ po.pc = "exited" => po' = po]_vars

\* the thread ran a tick that was skipped, then found the window gone and exited
C12_Witness ==
    /\ po.pc = "exited" /\ po.last = "skipped" /\ iters >= 1

\* C13: the watchdog fires on a tick only when that tick is the 600th
\* valid-window tick since the last firing (or since the thread started), and
\* never lets more than 600 ticks pass without firing.
\* The claim as stated; the code violates it where the 32-bit counter wraps.
C13_WatchdogEvery600 ==
    [][/\ (po.pc = "sleep" /\ po'.pc = "elv_get") => po.gap + 1 = WATCHDOG_INTERVAL
       /\ po'.gap < WATCHDOG_INTERVAL]_vars

\* a thread's step that completes toggle_ex_transparent
ToggleStep == (su.pc = "tog_set" /\ su' # su) \/ (po.pc = "tog_set" /\ po' # po)

\* a thread's step that completes ensure_layered_visible
RecoveryStep ==
    \/ su.pc = "elv_set" /\ su' # su
    \/ ex.pc = "elv_set" /\ ex' # ex
    \/ po.pc = "elv_set" /\ po' # po

\* toggle_ex_transparent leaves the layered bit and the opacity alone
ToggleKeepsLayering ==
    [][ToggleStep => (exStyle'.layered = exStyle.layered /\ opacity' = opacity)]_vars

\* C15: toggle_ex_transparent never changes the layered bit or the opacity,
\* and visibility recovery (in setup, in the watchdog, in ensure_visible) never
\* changes the WS_EX_TRANSPARENT bit, PASSTHROUGH or the Region Store.
\* The claim as stated; the code violates it for the WS_EX_TRANSPARENT bit.
C15_AttributesIndependent ==
    [][/\ ToggleStep => (exStyle'.layered = exStyle.layered /\ opacity' = opacity)
       /\ RecoveryStep =>
              /\ exStyle'.transparent = exStyle.transparent
              /\ PASSTHROUGH' = PASSTHROUGH
              /\ UNCHANGED <<HIT_RECTS, SCALE_FACTOR>>]_vars

\* C16: a tick abandoned because the window rectangle or the cursor position
\* could not be queried changes neither PASSTHROUGH nor the WS_EX_TRANSPARENT
\* bit in any of its steps, and ends back at the sleep of the loop.
C16_FailedQuerySkipsTick ==
    [][(po' # po /\ po.pc \in {"sleep", "elv_get", "elv_set", "sample"}) =>
            /\ PASSTHROUGH' = PASSTHROUGH
            /\ exStyle'.transparent = exStyle.transparent
            /\ (po.pc = "sample" /\ po'.pc # "hit") =>
                  /\ po'.pc = "sleep"
                  /\ UNCHANGED <<exStyle, opacity, rd, tick>>]_vars

\* a tick was skipped on a live window while the realizer was Captured
C16_Witness ==
    /\ po.pc = "sleep" /\ po.last = "skipped" /\ iters >= 1
    /\ winValid /\ ~PASSTHROUGH /\ ~exStyle.transparent

\* the arguments of the latest update_region call (the store's initial
\* contents when there was none)
Latest ==
    IF nCalls = 0 THEN [rects |-> <<>>, scale |-> One]
    ELSE [rects |-> upd["u1"].rects, scale |-> upd["u1"].scale]

\* C20: in a tick's containment test, every step taken when the last
\* update_region call has returned reads what that call stored: the rectangle
\* list locked, the scale factor read, and the answer computed are those of
\* the latest (rectangles, scale) pair.  A tick that starts after the last
\* update has returned takes all three steps in that situation.
C20_TickSeesLatestUpdate ==
    [][(po.pc = "hit" /\ rd' # rd /\ NoUpdateInFlight) =>
            /\ rd.pc = "lock" =>
                  /\ rd'.rv = nCalls
                  /\ HIT_RECTS = Latest.rects
            /\ rd.pc = "scale" =>
                  /\ rd'.sv = nCalls
                  /\ rd'.scale = Latest.scale
            /\ (rd.pc = "loop" /\ rd.rv = nCalls /\ rd.sv = nCalls) =>
                  rd'.result =
                      point_in_hit_region(Latest.rects, Latest.scale, rd.x, rd.y)]_vars

\* after the second update, which doubled the scale, the tick finds the
\* cursor at (150,20) inside the region
C20_Witness ==
    /\ po.pc = "hit" /\ rd.pc = "done" /\ NoUpdateInFlight
    /\ nCalls = 2 /\ rd.rv = 2 /\ rd.sv = 2
    /\ rd.x = 150 /\ rd.result

---------------------------------------------------------------------------
(* Claims about the region-based realizer and the callback-based hit test *)

\* device pixels the input shape is probed at
ShapeCoords == Coords \cup {10, 14, 15, 29, 30, 44, 75, 89, 90}

\* pixel (px, py) is inside the shape in effect
InShape(shape, px, py) ==
    \/ shape.kind = "none"
    \/ \E i \in 1..Len(shape.rects) :
          LET r == shape.rects[i]
          IN  /\ r.x + shape.dx <= px /\ px < r.x + shape.dx + r.w
              /\ r.y + shape.dy <= py /\ py < r.y + shape.dy + r.h

\* pixel (px, py) is inside rectangle r scaled to whole device pixels
InDeviceRect(r, scale, px, py) ==
    LET x0 == TruncDiv(r.x * scale[1], scale[2])
        y0 == TruncDiv(r.y * scale[1], scale[2])
        x1 == x0 + TruncDiv(r.w * scale[1], scale[2])
        y1 == y0 + TruncDiv(r.h * scale[1], scale[2])
    IN  x0 <= px /\ px < x1 /\ y0 <= py /\ py < y1

\* C17: when setup or update_region has returned after a rebuild that found
\* the window, the input shape in effect is a region at offset (0,0) that
\* holds exactly the pixels of the stored rectangles scaled by the stored
\* scale factor; for an empty list it is the empty region.
C17_ShapeFollowsStore ==
    (lx.pc = "idle" /\ lx.last = "submitted" /\ NoUpdateInFlight) =>
        /\ inputShape.kind = "region"
        /\ inputShape.dx = 0 /\ inputShape.dy = 0
        /\ \A px \in ShapeCoords, py \in ShapeCoords :
              InShape(inputShape, px, py) =
                  (\E i \in 1..Len(HIT_RECTS) :
                        InDeviceRect(HIT_RECTS[i], SCALE_FACTOR, px, py))
        /\ HIT_RECTS = <<>> => inputShape.rects = <<>>

\* an update to the empty list has replaced the shape of an earlier update
C17_Witness ==
    /\ lx.pc = "idle" /\ lx.last = "submitted"
    /\ upd["u1"].pc = "returned" /\ upd["u1"].id = 2 /\ upd["u1"].rects = <<>>
    /\ inputShape = [kind |-> "region", rects |-> <<>>, dx |-> 0, dy |-> 0]

\* C18: an update_region call whose rebuild does not find the window returns
\* all the same, with the Region Store holding the call's rectangles and
\* scale and the input shape left as it was; the shape in effect changes only
\* when a rebuild submits one.
C18_UnresolvedWindowKeepsShape ==
    [][/\ (lx.pc = "resolve" /\ lx' # lx /\ ~gdkOk /\ lx.caller = "u1") =>
              /\ upd'["u1"].pc = "returned"
              /\ lx'.pc = "idle"
              /\ HIT_RECTS' = upd["u1"].rects
              /\ SCALE_FACTOR' = upd["u1"].scale
              /\ inputShape' = inputShape
       /\ inputShape' # inputShape => (lx.pc = "submit" /\ lx'.last = "submitted")]_vars

\* the second update found no window: the store holds its arguments, the
\* shape is still that of the first update
C18_Witness ==
    /\ lx.pc = "idle" /\ lx.last = "unresolved"
    /\ upd["u1"].pc = "returned" /\ upd["u1"].id = 2
    /\ HIT_RECTS = <<>> /\ SCALE_FACTOR = One
    /\ inputShape.kind = "region" /\ Len(inputShape.rects) = 2

\* C19: point_in_hit_region_css answers with half-open containment of the
\* logical point in the stored logical rectangles; the stored scale factor
\* plays no part, so the answer is that of the physical test at scale 1.
C19_CssTestIgnoresScale ==
    cs.pc = "done" =>
        /\ cs.result = (\E i \in 1..Len(HIT_RECTS) :
                            InScaledRect(HIT_RECTS[i], One, cs.x, cs.y))
        /\ cs.result = point_in_hit_region(HIT_RECTS, One, cs.x, cs.y)

\* with scale 2 stored, the logical point (29,10) is found inside RB, which
\* the physical test at that scale would place at [20,60) x [20,60)
C19_Witness ==
    /\ cs.pc = "done" /\ HIT_RECTS = <<RB>> /\ SCALE_FACTOR = <<2, 1>>
    /\ cs.x = 29 /\ cs.y = 10 /\ cs.result
    /\ ~point_in_hit_region(HIT_RECTS, SCALE_FACTOR, cs.x, cs.y)

---------------------------------------------------------------------------
(* The dictation session (SpecSession) *)

\* the states of the updates a call has emitted so far, in order
EmittedStates(emitted) == [i \in 1..Len(emitted) |-> emitted[i].state]

\* a stop_and_process run that has set Transcribing and has not yet reached
\* the final set_state(Idle) of manager.rs:124
RunInFlight ==
    sp.pc \in {"emit_tr", "stop", "transcribe", "set_pasting", "emit_pasting",
               "paste", "set_done", "emit_done", "to_idle"}

\* C23 as claimed: when a stop_and_process run that passed its Recording
\* guard returns, the session state is Idle, whatever the outcome of the
\* recorder stop, the transcription and the paste; the stored state is never
\* Error.
C23_IdleAtReturn ==
    [][ /\ (sp'.pc = "returned" /\ sp.pc # "returned" /\ sp'.run) => state' = "Idle"
        /\ state' # "Error" ]_vars

\* C23, amended: a stop_and_process run that passed its Recording guard
\* returns only after its final set_state(Idle), which is made whether the
\* recorder stop, the transcription or the paste succeeded or failed and which
\* is the run's last write to the state: when the run returns the state is
\* Idle, or Recording if a start_recording call has begun a new session since.
\* No step ever stores Error.
C23_RunEndsIdle ==
    [][ /\ (sp.pc = "to_idle" /\ sp' # sp) => state' = "Idle"
        /\ (sp.pc = "finish" /\ sp' # sp) => state' = state
        /\ (sp'.pc = "returned" /\ sp.pc # "returned" /\ sp'.run)
              => (sp.pc = "finish" /\ state' \in {"Idle", "Recording"})
        /\ (sp'.pc = "finish" /\ sp.pc # "finish") => sp.pc = "to_idle"
        /\ state' # "Error" ]_vars

C23_Witness ==
    /\ sp.pc = "returned"
    /\ sp.run
    /\ sp.err = "paste failed"
    /\ state = "Idle"

\* C25: start_recording called while the state is not Idle returns
\* Err("Busy"), and stop_and_process called while the state is not Recording
\* returns Err("Not recording"); either call leaves the state unchanged, does
\* not reach the recorder and emits no update.
C25_GuardsRejectWithoutEffect ==
    [][ /\ (st.pc = "guard" /\ st' # st /\ state # "Idle")
              => /\ st'.pc = "returned"
                 /\ st'.result = Err("Busy")
                 /\ st'.emitted = <<>>
                 /\ state' = state
                 /\ rec' = rec
        /\ (sp.pc = "guard" /\ sp' # sp /\ state # "Recording")
              => /\ sp'.pc = "returned"
                 /\ sp'.result = Err("Not recording")
                 /\ sp'.emitted = <<>>
                 /\ state' = state
                 /\ rec' = rec ]_vars

C25_Witness ==
    /\ st.pc = "returned"
    /\ sp.pc = "returned"
    /\ st.result = Err("Busy")
    /\ sp.result = Err("Not recording")
    /\ st.emitted = <<>>
    /\ sp.emitted = <<>>

\* C26: stop_and_process calls recorder.stop only after the matching
\* recorder.start has returned Ok, never while a start_recording call is
\* between setting the state to Recording and the return of recorder.start.
C26_StopAfterStartReturned ==
    [][ (sp.pc = "stop" /\ sp' # sp)
            => (rec = "on" /\ st.pc \notin {"emit", "start"}) ]_vars

\* C27: while a stop_and_process run is in flight every start_recording call
\* returns Busy.
C27_BusyDuringRun ==
    [][ (RunInFlight /\ st.pc = "guard" /\ st' # st)
            => (st'.pc = "returned" /\ st'.result = Err("Busy")) ]_vars

\* C28: the updates of one stop_and_process run are a prefix of Transcribing,
\* Pasting, Done, with Pasting only after the transcription succeeded and Done,
\* carrying the text, only after the paste succeeded; a failing run ends with
\* exactly one Error update carrying the message and never emits Done, and a
\* successful run never emits Error.
C28_UpdatesPrefixOrdered ==
    sp.run =>
      LET e == sp.emitted
          s == EmittedStates(e)
          n == Len(e)
          Has(x) == \E i \in 1..n : s[i] = x
      IN  /\ s \in {<<>>, <<"Transcribing">>, <<"Transcribing", "Pasting">>,
                    <<"Transcribing", "Pasting", "Done">>,
                    <<"Transcribing", "Error">>,
                    <<"Transcribing", "Pasting", "Error">>}
          /\ sp.pc # "emit_tr" => n >= 1
          /\ Has("Pasting") => sp.text # None
          /\ Has("Done") => (sp.pasted /\ e[n].text = sp.text /\ sp.text # None)
          /\ Has("Error") => /\ sp.pc = "returned"
                             /\ ~sp.result.ok
                             /\ e[n].message = sp.result.val
          /\ sp.pc = "returned" =>
                IF sp.result.ok
                THEN s = <<"Transcribing", "Pasting", "Done">> /\ e[n].text = sp.result.val
                ELSE s[n] = "Error" /\ ~Has("Done")

C28_Witness ==
    /\ sp.pc = "returned"
    /\ sp.run
    /\ EmittedStates(sp.emitted) = <<"Transcribing", "Pasting", "Error">>
    /\ sp.emitted[3].message = "paste failed"

---------------------------------------------------------------------------
(* The transcription client (SpecTranscribe, SpecUrl) *)

\* the first attempt failed with an error the code retries after: one that
\* blames the prompt when a prompt was sent, or the response format
Retryable(t) ==
    /\ ~t.first.ok
    /\ \/ t.prompt_to_send.some /\ should_retry_without_prompt(t.first)
       \/ should_retry_without_verbose(t.first)

\* C29: one transcribe call sends at most two requests: none when the API key
\* is blank, one when the first attempt succeeds or fails with an error that
\* is not retried, and otherwise exactly one retry, which differs from the
\* first request by dropping the prompt or the verbose response format, never
\* both; the answer to the retry is what the call returns.
C29_AtMostOneRetry ==
    tr.pc = "returned" =>
      LET n == Len(tr.requests)
      IN  /\ n <= 2
          /\ n = 0 <=> IsBlank(tr.api_key)
          /\ n >= 1 => tr.requests[1] = Request(tr.prompt_to_send, TRUE)
          /\ n = 1 <=> (~IsBlank(tr.api_key) /\ (tr.first.ok \/ ~Retryable(tr)))
          /\ n = 1 => tr.result = (IF tr.first.ok THEN tr.first ELSE Err(tr.first))
          /\ n = 2 =>
               LET a == tr.requests[1]
                   b == tr.requests[2]
               IN  /\ \/ a.prompt.some /\ ~b.prompt.some /\ b.verbose
                      \/ b.prompt = a.prompt /\ ~b.verbose
                   /\ tr.second # Pending
                   /\ tr.result = (IF tr.second.ok THEN tr.second ELSE Err(tr.second))

\* a retry without the verbose format whose own retryable failure is returned
C29_Witness ==
    /\ tr.pc = "returned"
    /\ Len(tr.requests) = 2
    /\ tr.requests[2] = Request(Some(<<"V", "o", "x", "l", "y">>), FALSE)
    /\ tr.second = ApiError(422, <<"verbose">>)
    /\ tr.result = Err(tr.second)

\* base_url without its trailing slashes, said without recursion: the prefix
\* that does not end in "/" and is followed by slashes only
WithoutTrailingSlashes(s) ==
    CHOOSE t \in {SubSeq(s, 1, k) : k \in 0..Len(s)} :
        /\ t = <<>> \/ t[Len(t)] # "/"
        /\ \A i \in (Len(t) + 1)..Len(s) : s[i] = "/"

\* the output ends in the endpoint, has no trailing slash, keeps the trimmed
\* base URL and adds the endpoint only when that does not already end in it,
\* and the builder leaves its own output unchanged
Normalized(u) ==
    LET t == WithoutTrailingSlashes(u.base_url)
    IN  /\ EndsWith(u.out, Endpoint)
        /\ u.out[Len(u.out)] # "/"
        /\ StartsWith(u.out, t)
        /\ Len(u.out) = (IF EndsWith(t, Endpoint) THEN Len(t) ELSE Len(t) + Len(Endpoint))
        /\ u.pc = "again" => u.again = u.out

\* C24 as claimed: for any base URL the output of build_transcription_url ends
\* in exactly one "/audio/transcriptions" with no trailing slash, the endpoint
\* being appended only when not already present, and the builder applied to
\* its own output returns it unchanged.
C24_ExactlyOneEndpoint ==
    url.pc # "idle" =>
        /\ Normalized(url)
        /\ ~EndsWith(url.out, Endpoint \o Endpoint)

\* C24, amended: the output ends in "/audio/transcriptions" with no trailing
\* slash, and in exactly one copy of it unless the base URL, trailing slashes
\* aside, already ends in two; the endpoint is appended only when not already
\* present, and the builder applied to its own output returns it unchanged.
C24_EndpointNormalized ==
    url.pc # "idle" =>
        /\ Normalized(url)
        /\ EndsWith(url.out, Endpoint \o Endpoint)
              => EndsWith(WithoutTrailingSlashes(url.base_url), Endpoint \o Endpoint)

C24_Witness ==
    /\ url.pc = "again"
    /\ url.base_url = <<"v1", "/", "audio", "/", "transcriptions", "/", "/">>
    /\ url.out = <<"v1", "/", "audio", "/", "transcriptions">>
    /\ url.again = url.out

---------------------------------------------------------------------------
(* The facade (SpecFacade, SpecStart) *)

\* C21: after any sequence of setup, update_region and ensure_visible calls on
\* a window, at most one polling thread exists for it.  A tracker thread ends
\* only when the window is gone, so on a live window the threads in existence
\* are the threads spawned.
C21_OnePollingThread ==
    winValid => po.threads <= 1

\* no update_region call has carried a non-empty list so far
NoNonEmptyUpdate == upd["u2"].pc = "idle"

\* C22: the system starts fully click-through.  The store is empty with scale
\* 1.0 until the first update_region call; setup's toggle sets the
\* ignore-input bit of a live window and setup stores PASSTHROUGH = true; and
\* as long as no update_region call has carried a non-empty list, no hit test
\* answers true and no tick of the tracker begins a toggle, clears the bit or
\* stores PASSTHROUGH = false, wherever the cursor is.
C22_StartsClickThrough ==
    [][ /\ nCalls = 0 => (HIT_RECTS = <<>> /\ SCALE_FACTOR = One)
        /\ (su.pc = "tog_set" /\ su' # su /\ winValid) => exStyle'.transparent
        /\ (su.pc = "store" /\ su' # su) => PASSTHROUGH'
        /\ NoNonEmptyUpdate =>
              /\ rd'.pc = "done" => ~rd'.result
              /\ po' # po =>
                    /\ po'.pc \notin {"tog_get", "tog_set", "store"}
                    /\ po'.last # "toggled"
                    /\ PASSTHROUGH'
                    /\ exStyle.transparent => exStyle'.transparent ]_vars

\* a tick that ended with the state kept, after setup and after an update
\* that pushed an empty list with scale 2
C22_Witness ==
    /\ su.pc = "done"
    /\ po.pc = "sleep"
    /\ po.last = "kept"
    /\ iters >= 1
    /\ rectsVer >= 1
    /\ SCALE_FACTOR = <<2, 1>>
    /\ NoNonEmptyUpdate
    /\ PASSTHROUGH
    /\ exStyle.transparent

---------------------------------------------------------------------------
(* The two realizers on one store (SpecAgree) *)

\* C30: for every snapshot and every integer device pixel p, p lies inside the
\* input shape rebuild_input_shape built from the snapshot iff
\* point_in_hit_region(p) is true for it.
C30_RealizersAgree ==
    (rd.pc = "done" /\ lx.pc = "idle" /\ lx.last = "submitted") =>
        rd.result = InShape(inputShape, rd.x, rd.y)

=============================================================================
